---- MODULE Spec2Model ----
(***************************************************************************)
(* Discrete-event model of the wafer flow simulators.                      *)
(*                                                                         *)
(* The simulation kernel (event queue, Resource users / put_queue,         *)
(* request, release, cancel, any_of) follows the simpy semantics the       *)
(* source relies on; the processes are translated from the generators in   *)
(* src/tool_simulator.py and from the flow units of                        *)
(* src/anylogic_flow_units.py.  One action = the processing of one event   *)
(* popped from the event queue, including the whole run of the resumed     *)
(* generator up to its next yield.                                         *)
(***************************************************************************)
EXTENDS Integers, Sequences, FiniteSets, TLC

(* ------------------------------ bounds --------------------------------- *)
MaxWafers == 2
MaxSteps == 3
MaxInstances == 2
MaxArrivals == 3
MaxCapacity == 2
MaxBatch == 2
MaxLots == 1
MaxTime == 5
MaxWip == 1

(* ------------------------- program constants --------------------------- *)
AcquireTimeout == 1000
PartCapacity == 1
URGENT == 0
NORMAL == 1

Units == {"A", "B"}
Durations == {-1, 0, AcquireTimeout}

InterArrivals == {0, 1}
ServiceTimes == {0, 2, 5}
SetupTimes == {0, 1}
DelayTimes == {0, 2}
Priorities == {0, 1}
DefaultPriority == 0
CombineTimeouts == {0, 2}
WaferGaps == {10, 30}
LotInterval == 3600
DurationMeans == {0, 25}
Horizons == {40, 86400}
ProcTimes == {0, 2}
ChamberTimes == {0, 2}

NoPart == <<"-", 0>>
PoolRes == <<"pool", 0>>
ServiceRes == <<"service", 0>>
QueueUnit == <<"queue", 0>>
DelayUnit == <<"delay", 0>>
SelectUnit == <<"select", 0>>
CombineUnit == <<"combine", 0>>
SinkUnit == <<"sink", 0>>
TrueSink == <<"sink", 1>>
FalseSink == <<"sink", 2>>
ControllerUnit == <<"controller", 0>>
NoReq == [w |-> 0, k |-> 0, p |-> NoPart]

VARIABLES
    now,                 \* env.now
    queue,               \* env._queue: events ordered by (time, priority, insertion)
    users,               \* Resource.users, per physical part
    put_queue,           \* Resource.put_queue (pending requests), per physical part
    triggered,           \* requests whose event has been triggered (granted)
    processed,           \* request / timeout events whose callbacks have run
    unit_capability,     \* number of parts configured for each unit
    unit_flow,           \* the configured flow steps
    num_wafers,          \* lot size
    status,              \* tool_environment: the status given for each part
    pc,                  \* per wafer: position of the generator
    idx,                 \* per wafer: index into sorted_flow of the step in hand
    current,             \* per wafer: current_request (names current_resource / part)
    resource_start_time, \* per wafer
    condTriggered,       \* per wafer: the any_of condition has been triggered
    wafer_log,           \* list of processing records
    start_time_tracker,
    end_time_tracker,
    released,            \* history: the requests passed to release(), in call order
    adopted,             \* history: per wafer, the grants adopted (step, part, time)
    timedOut,            \* history: per wafer, the steps whose acquisition timed out
    wait_since,          \* history: per wafer, the time its last any_of wait began
    ended,               \* wafer processes whose process event has been processed
    lot_pc,              \* position of lot_process
    pool_capacity,       \* ResourcePool.capacity
    service_time,        \* ResourcePool.service_time
    max_arrivals,        \* Source.max_arrivals
    generated_count,     \* Source.generated_count
    agent_pc,            \* per agent: position of ResourcePool.receive_agent
    agents_entered,      \* agents_entered of the flow unit the Source feeds
    agents_exited,       \* agents_exited of that flow unit
    request_log,         \* history: the request() calls, in call order
    grant_log,           \* history: the grants, in order, with the queue left behind
    unit,                \* the flow unit the Source is connected to
    connected,           \* that unit has an output_port (a Sink)
    priority_func,       \* that unit was given a priority_func
    capacity,            \* Queue.capacity / Delay.capacity
    queue_capacity,      \* Service.queue_capacity
    setup_time,          \* Service.setup_time
    delay_time,          \* Delay.delay_time
    required_agents,     \* Combine.required_agents
    timeout,             \* Combine.timeout (0: none was given)
    attributes,          \* per agent: what priority_func / condition_func return
    buffer,              \* Queue.queue / Service.queue
    processing_agents,   \* Delay.processing_agents / Service.processing_agents
    waiting_agents,      \* Combine.waiting_agents
    batch_count,         \* Combine.batch_count
    rejected_agents,     \* Service.rejected_agents
    total_queue_time,    \* Service.total_queue_time
    total_service_time,  \* Service.total_service_time
    queue_start_times,   \* Service.queue_start_times
    service_start_times, \* Service.service_start_times
    completed_agents,    \* Sink.completed_agents, with the sink and the time
    dropped,             \* history: the arrivals that took a rejection branch
    sent,                \* history: the send_agent / hand-off calls (agent, port, time)
    arrived,             \* history: per agent, the time receive_agent ran
    started,             \* history: per agent, the time its request event resumed it
    exited,              \* history: per agent, the time agents_exited counted it
    batches,             \* history: the batches Combine._process_batch sent
    max_lots,            \* WaferSource.max_lots
    lot_size,            \* WaferSource.lot_size
    duration,            \* run_simulation(duration): the horizon
    lot_count,           \* WaferSource.lot_count
    wafer_agents,        \* per WaferAgent: its fields and the locals of its process
    tool_units,          \* per SemiconductorToolUnit: resource_index and counters
    wafer_logs,          \* the simulator's wafer_logs
    sim_pc,              \* position of run_simulation
    metal_lots,          \* semiconductor_simulator: initial_lots and the new lot
    occupied_process_chambers,
    occupied_degas_chambers,
    lot_proc,            \* per lot: position of process_wip_lot / process_lot
    wafer_proc           \* per lot and wafer: position of the wafer's processes

vars == <<now, queue, users, put_queue, triggered, processed, unit_capability,
          unit_flow, num_wafers, status, pc, idx, current, resource_start_time,
          condTriggered, wafer_log, start_time_tracker, end_time_tracker,
          released, adopted, timedOut, wait_since, ended, lot_pc, pool_capacity,
          service_time, max_arrivals, generated_count, agent_pc,
          agents_entered, agents_exited, request_log, grant_log, unit,
          connected, priority_func, capacity, queue_capacity, setup_time,
          delay_time, required_agents, timeout, attributes, buffer, processing_agents,
          waiting_agents, batch_count, rejected_agents, total_queue_time,
          total_service_time, queue_start_times, service_start_times,
          completed_agents, dropped, sent, arrived, started, exited, batches,
          max_lots, lot_size, duration, lot_count, wafer_agents, tool_units,
          wafer_logs, sim_pc, metal_lots, occupied_process_chambers,
          occupied_degas_chambers, lot_proc, wafer_proc>>

toolConfig == <<unit_capability, unit_flow, num_wafers, status>>
poolConfig == <<pool_capacity, service_time, max_arrivals>>
poolVars == <<generated_count, agent_pc, agents_entered, agents_exited>>
unitConfig == <<unit, connected, priority_func, capacity, queue_capacity,
                setup_time, delay_time, required_agents, timeout>>
lotConfig == <<max_lots, lot_size, duration>>
metalConfig == <<metal_lots, occupied_process_chambers, occupied_degas_chambers>>
unitVars == <<attributes, buffer, processing_agents, waiting_agents, batch_count,
              rejected_agents, total_queue_time, total_service_time,
              queue_start_times, service_start_times, completed_agents,
              dropped, sent, arrived, started, exited, batches>>

Wafers == 1..num_wafers

(* --------------------------- configuration ----------------------------- *)
\* MetalTool.unit_to_parts: the parts of a unit, in configured order.
UnitToParts(u) ==
    IF u \in DOMAIN unit_capability
    THEN [i \in 1..unit_capability[u] |-> <<u, i>>]
    ELSE <<>>

\* all_parts / shared_resources: one Resource per physical part.
AllParts == {<<u, i>> : u \in Units, i \in 1..(MaxInstances + 1)}

\* a MetalTool built without a status: no part is down or occupied
NoStatus == [p \in AllParts |-> "available"]

\* variant: the resource is created one slot too large
CapacityOffByOne(r) ==
    IF r \in {PoolRes, ServiceRes} THEN pool_capacity + 1
    ELSE IF r[2] = 0 THEN unit_capability[r[1]] + 1
    ELSE PartCapacity + 1

\* simpy.Resource(env, capacity=...)
\* (<<u, 0>> is the pool FlowController creates for unit u: capacity=len(resources))
Capacity(r) ==
    IF r \in {PoolRes, ServiceRes} THEN pool_capacity
    ELSE IF r[2] = 0 THEN unit_capability[r[1]]
    ELSE PartCapacity

RECURSIVE FilterTransfer(_)
FilterTransfer(f) ==
    IF f = <<>> THEN <<>>
    ELSE IF Head(f).transfer THEN FilterTransfer(Tail(f))
         ELSE <<Head(f)>> \o FilterTransfer(Tail(f))

\* stable insertion of a step into a list sorted by seq_id
RECURSIVE InsertSorted(_, _)
InsertSorted(s, f) ==
    IF f = <<>> THEN <<s>>
    ELSE IF s.seq_id < Head(f).seq_id THEN <<s>> \o f
         ELSE <<Head(f)>> \o InsertSorted(s, Tail(f))

RECURSIVE SortBySeq(_)
SortBySeq(f) ==
    IF f = <<>> THEN <<>>
    ELSE InsertSorted(f[Len(f)], SortBySeq(SubSeq(f, 1, Len(f) - 1)))

sorted_flow == SortBySeq(FilterTransfer(unit_flow))

(* ------------------------------ events --------------------------------- *)
Ev(type, w, k, p) == [type |-> type, w |-> w, k |-> k, p |-> p]
\* the event of a request; step 0 marks a request made by a ResourcePool agent
ReqEv(id) == Ev(IF id.k = 0 THEN "seize" ELSE "req", id.w, id.k, id.p)
TmoEv(w, k) == Ev("tmo", w, k, NoPart)

\* variant: among events of one time and priority the newest comes first
ScheduleNewestFirst(q, t, prio, ev) ==
    LET e == [time |-> t, prio |-> prio, ev |-> ev]
        n == Cardinality({i \in 1..Len(q) :
                 \/ q[i].time < t
                 \/ (q[i].time = t /\ q[i].prio < prio)})
    IN SubSeq(q, 1, n) \o <<e>> \o SubSeq(q, n + 1, Len(q))

\* Environment.schedule: heap order is (time, priority, event id)
Schedule(q, t, prio, ev) ==
    LET e == [time |-> t, prio |-> prio, ev |-> ev]
        n == Cardinality({i \in 1..Len(q) :
                 \/ q[i].time < t
                 \/ (q[i].time = t /\ q[i].prio <= prio)})
    IN SubSeq(q, 1, n) \o <<e>> \o SubSeq(q, n + 1, Len(q))

RECURSIVE Remove(_, _)
Remove(s, x) ==
    IF s = <<>> THEN <<>>
    ELSE IF Head(s) = x THEN Tail(s)
         ELSE <<Head(s)>> \o Remove(Tail(s), x)

(* ------------------- the state threaded through a step ----------------- *)
State ==
    [now |-> now, queue |-> queue, users |-> users, put_queue |-> put_queue,
     triggered |-> triggered, processed |-> processed, pc |-> pc, idx |-> idx,
     current |-> current, resource_start_time |-> resource_start_time,
     condTriggered |-> condTriggered, wafer_log |-> wafer_log,
     start_time_tracker |-> start_time_tracker,
     end_time_tracker |-> end_time_tracker, released |-> released,
     adopted |-> adopted, timedOut |-> timedOut, wait_since |-> wait_since,
     ended |-> ended,
     lot_pc |-> lot_pc, request_log |-> request_log, grant_log |-> grant_log,
     lot_count |-> lot_count, wafer_agents |-> wafer_agents,
     tool_units |-> tool_units, wafer_logs |-> wafer_logs, sim_pc |-> sim_pc,
     lot_proc |-> lot_proc, wafer_proc |-> wafer_proc]

Commit(S) ==
    /\ now' = S.now
    /\ queue' = S.queue
    /\ users' = S.users
    /\ put_queue' = S.put_queue
    /\ triggered' = S.triggered
    /\ processed' = S.processed
    /\ pc' = S.pc
    /\ idx' = S.idx
    /\ current' = S.current
    /\ resource_start_time' = S.resource_start_time
    /\ condTriggered' = S.condTriggered
    /\ wafer_log' = S.wafer_log
    /\ start_time_tracker' = S.start_time_tracker
    /\ end_time_tracker' = S.end_time_tracker
    /\ released' = S.released
    /\ adopted' = S.adopted
    /\ timedOut' = S.timedOut
    /\ wait_since' = S.wait_since
    /\ ended' = S.ended
    /\ lot_pc' = S.lot_pc
    /\ request_log' = S.request_log
    /\ grant_log' = S.grant_log
    /\ lot_count' = S.lot_count
    /\ wafer_agents' = S.wafer_agents
    /\ tool_units' = S.tool_units
    /\ wafer_logs' = S.wafer_logs
    /\ sim_pc' = S.sim_pc
    /\ lot_proc' = S.lot_proc
    /\ wafer_proc' = S.wafer_proc
    /\ UNCHANGED <<toolConfig, poolConfig, unitConfig, lotConfig, metalConfig>>

\* Environment.step: pop the earliest event and advance the clock to it
Pop(S) == [S EXCEPT !.now = Head(S.queue).time, !.queue = Tail(S.queue)]

(* ----------------------------- Resource -------------------------------- *)
\* Resource._do_put for the head of the put queue: the grant
Grant(S, r) ==
    LET h == Head(S.put_queue[r])
    IN [S EXCEPT !.users[r] = Append(@, h),
                 !.put_queue[r] = Tail(@),
                 !.triggered = @ \cup {h},
                 !.grant_log = Append(@, [id |-> h, t |-> S.now,
                                          behind |-> Tail(S.put_queue[r])]),
                 !.queue = Schedule(@, S.now, NORMAL, ReqEv(h))]

\* BaseResource._trigger_put: only the head of the put queue is tried
TriggerPut(S, r) ==
    IF Len(S.put_queue[r]) > 0 /\ Len(S.users[r]) < Capacity(r)
    THEN Grant(S, r)
    ELSE S

\* the request() call is recorded with its time, its priority and whether
\* the caller has to wait for the grant
Logged(S, id, prio) ==
    [S EXCEPT !.request_log = Append(@, [id |-> id, t |-> S.now, priority |-> prio,
                                         waited |-> id \notin S.triggered])]

\* variant: a new request goes to the front of the queue
RequestAtFront(S, id) ==
    Logged(TriggerPut([S EXCEPT !.put_queue[id.p] = <<id>> \o @], id.p),
           id, DefaultPriority)

\* Resource.request(): enqueue the request, then _trigger_put
Request(S, id) ==
    Logged(TriggerPut([S EXCEPT !.put_queue[id.p] = Append(@, id)], id.p),
           id, DefaultPriority)

\* PriorityRequest.key = (priority, time, not preempt) of a queued request
Key(S, id) ==
    LET e == CHOOSE e \in {S.request_log[i] : i \in 1..Len(S.request_log)} : e.id = id
    IN <<e.priority, e.t>>

KeyLeq(k1, k2) == k1[1] < k2[1] \/ (k1[1] = k2[1] /\ k1[2] <= k2[2])

\* SortedQueue.append: append, then a stable sort by key: the item comes to
\* rest behind every queued item whose key is not greater than its own
SortedInsert(S, q, id, key) ==
    LET n == Cardinality({i \in 1..Len(q) : KeyLeq(Key(S, q[i]), key)})
    IN SubSeq(q, 1, n) \o <<id>> \o SubSeq(q, n + 1, Len(q))

\* variant: the priority queue is kept in arrival order
PriorityRequestFifo(S, id, prio) ==
    Logged(TriggerPut([S EXCEPT !.put_queue[id.p] = Append(@, id)], id.p),
           id, prio)

\* PriorityResource.request(priority): sorted enqueue, then _trigger_put
PriorityRequest(S, id, prio) ==
    Logged(TriggerPut([S EXCEPT !.put_queue[id.p] =
                                    SortedInsert(S, @, id, <<prio, S.now>>)], id.p),
           id, prio)

\* variant: the Release event is processed one time unit later
ReleaseLate(S, id) ==
    [S EXCEPT !.users[id.p] = Remove(@, id),
              !.released = Append(@, id),
              !.queue = Schedule(@, S.now + 1, NORMAL, Ev("rel", 0, 0, id.p))]

\* Resource.release(request): drop it from users, schedule the Release event
Release(S, id) ==
    [S EXCEPT !.users[id.p] = Remove(@, id),
              !.released = Append(@, id),
              !.queue = Schedule(@, S.now, NORMAL, Ev("rel", 0, 0, id.p))]

\* "if not req.triggered: req.cancel()"
CancelIfNotTriggered(S, id) ==
    IF id \in S.triggered THEN S
    ELSE [S EXCEPT !.put_queue[id.p] = Remove(@, id)]

(* ------------------------ wafer_process pieces ------------------------- *)
NoTime == -1

\* the process event of a finished wafer_process is triggered
End(S, w) ==
    [S EXCEPT !.end_time_tracker[w] = S.now,
              !.pc[w] = "done",
              !.queue = Schedule(@, S.now, NORMAL, Ev("end", w, 0, NoPart))]

LogRecord(S, w, k) ==
    [S EXCEPT !.wafer_log = Append(@,
        [WaferID |-> w,
         UnitID |-> sorted_flow[k].unit_id,
         SeqID |-> sorted_flow[k].seq_id,
         PartID |-> S.current[w].p,
         Start |-> S.resource_start_time[w],
         Finish |-> S.now])]

\* the except clause: release the held resource, then fall through to the end
ExceptCleanup(S, w) ==
    End(IF S.current[w] # NoReq THEN Release(S, S.current[w]) ELSE S, w)

\* "yield env.timeout(step['duration_min'])": a negative delay raises
YieldTimeout(S, w, k, nextpc) ==
    LET d == sorted_flow[k].duration_min
    IN IF d < 0 THEN ExceptCleanup(S, w)
       ELSE [S EXCEPT !.pc[w] = nextpc,
                      !.queue = Schedule(@, S.now + d, NORMAL,
                                         Ev("delay", w, k, NoPart))]

\* after the for loop: log the final resource usage and release it
Finish(S, w) ==
    End(IF S.current[w] # NoReq
        THEN Release(LogRecord(S, w, Len(sorted_flow)), S.current[w])
        ELSE S, w)

\* the requests list of the acquisition of step k
Requests(w, k) ==
    LET parts == UnitToParts(sorted_flow[k].unit_id)
    IN [i \in 1..Len(parts) |-> [w |-> w, k |-> k, p |-> parts[i]]]

RECURSIVE RequestAll(_, _)
RequestAll(S, reqs) ==
    IF reqs = <<>> THEN S
    ELSE RequestAll(Request(S, Head(reqs)), Tail(reqs))

RECURSIVE CancelAll(_, _)
CancelAll(S, reqs) ==
    IF reqs = <<>> THEN S
    ELSE CancelAll(CancelIfNotTriggered(S, Head(reqs)), Tail(reqs))

\* variant: the any_of has no timeout event to race against
AcquireNoTimeout(S, w, k) ==
    LET S1 == RequestAll(S, Requests(w, k))
    IN [S1 EXCEPT !.pc[w] = "acquire",
                  !.idx[w] = k,
                  !.condTriggered[w] = FALSE,
                  !.wait_since[w] = S.now]

\* requests to every part of the unit, the timeout event and the any_of
Acquire(S, w, k) ==
    LET S1 == RequestAll(S, Requests(w, k))
    IN [S1 EXCEPT !.queue = Schedule(@, S.now + AcquireTimeout, NORMAL, TmoEv(w, k)),
                  !.pc[w] = "acquire",
                  !.idx[w] = k,
                  !.condTriggered[w] = FALSE,
                  !.wait_since[w] = S.now]

\* the for loop from position j on: steps without parts are skipped
ForLoop(S, w, j) ==
    LET todo == {n \in j..Len(sorted_flow) :
                    UnitToParts(sorted_flow[n].unit_id) # <<>>}
    IN IF todo = {} THEN Finish(S, w)
       ELSE Acquire(S, w, CHOOSE n \in todo : \A m \in todo : n <= m)

\* Condition._check: the first processed event triggers the any_of
Notify(S, e) ==
    LET S1 == [S EXCEPT !.processed = @ \cup {e}]
    IN IF S.pc[e.w] = "acquire" /\ S.idx[e.w] = e.k /\ ~S.condTriggered[e.w]
       THEN [S1 EXCEPT !.condTriggered[e.w] = TRUE,
                       !.queue = Schedule(@, S.now, NORMAL, Ev("cond", e.w, e.k, NoPart))]
       ELSE S1

\* "for req in requests: if req in result: acquired_request = req; break"
AcquiredRequest(S, w, k) ==
    LET reqs == Requests(w, k)
        hit == {i \in 1..Len(reqs) : ReqEv(reqs[i]) \in S.processed}
    IN IF hit = {} THEN NoReq
       ELSE reqs[CHOOSE i \in hit : \A j \in hit : i <= j]

TimeoutInResult(S, w, k) == TmoEv(w, k) \in S.processed

\* lines 62-69: first step, timeout
FirstTimeout(S, w, k) ==
    End([CancelAll(S, Requests(w, k)) EXCEPT !.timedOut[w] = @ \cup {k}], w)

\* variant: the part is given back as soon as the processing delay starts
FirstAcquiredReleases(S, w, k) ==
    LET acq == AcquiredRequest(S, w, k)
    IN IF acq = NoReq THEN End(S, w)
       ELSE YieldTimeout(
              Release([CancelAll(S, Requests(w, k)) EXCEPT
                          !.current[w] = acq,
                          !.resource_start_time[w] = S.now,
                          !.adopted[w] = Append(@, [k |-> k, p |-> acq.p, t |-> S.now])],
                      acq),
              w, k, "process")

\* lines 71-89 and 148: first step, a request was granted
FirstAcquired(S, w, k) ==
    LET acq == AcquiredRequest(S, w, k)
    IN IF acq = NoReq THEN End(S, w)
       ELSE YieldTimeout(
              [CancelAll(S, Requests(w, k)) EXCEPT
                   !.current[w] = acq,
                   !.resource_start_time[w] = S.now,
                   !.adopted[w] = Append(@, [k |-> k, p |-> acq.p, t |-> S.now])],
              w, k, "process")

\* variant: the timeout branch gives up the current resource
NextTimeoutReleases(S, w, k) ==
    YieldTimeout(Release([CancelAll(S, Requests(w, k)) EXCEPT !.timedOut[w] = @ \cup {k}],
                         S.current[w]),
                 w, k, "fallback")

\* variant: after the fallback delay the same step is tried again
NextTimeoutRetry(S, w, k) ==
    LET S1 == [CancelAll(S, Requests(w, k)) EXCEPT !.timedOut[w] = @ \cup {k}]
        d == sorted_flow[k].duration_min
    IN IF d < 0 THEN ExceptCleanup(S1, w)
       ELSE [S1 EXCEPT !.pc[w] = "fallback",
                       !.queue = Schedule(@, S.now + d, NORMAL,
                                          Ev("delay", w, k - 1, NoPart))]

\* lines 98-106: later step, timeout: keep the current resource
NextTimeout(S, w, k) ==
    YieldTimeout([CancelAll(S, Requests(w, k)) EXCEPT !.timedOut[w] = @ \cup {k}],
                 w, k, "fallback")

\* variant: current_request is not switched to the new request
NextAcquiredKeepsRequest(S, w, k) ==
    LET acq == AcquiredRequest(S, w, k)
    IN IF acq = NoReq THEN YieldTimeout(S, w, k, "fallback")
       ELSE LET S1 == CancelAll(S, Requests(w, k))
                S2 == LogRecord(S1, w, k - 1)
                S3 == Release(S2, S.current[w])
            IN YieldTimeout(
                 [S3 EXCEPT !.resource_start_time[w] = S.now,
                            !.adopted[w] = Append(@, [k |-> k, p |-> acq.p, t |-> S.now])],
                 w, k, "process")

\* variant: resource_start_time is not reset when the resource is switched
NextAcquiredKeepsStart(S, w, k) ==
    LET acq == AcquiredRequest(S, w, k)
    IN IF acq = NoReq THEN YieldTimeout(S, w, k, "fallback")
       ELSE LET S1 == CancelAll(S, Requests(w, k))
                S2 == LogRecord(S1, w, k - 1)
                S3 == Release(S2, S.current[w])
            IN YieldTimeout(
                 [S3 EXCEPT !.current[w] = acq,
                            !.adopted[w] = Append(@, [k |-> k, p |-> acq.p, t |-> S.now])],
                 w, k, "process")

\* lines 108-148: later step, a request was granted
NextAcquired(S, w, k) ==
    LET acq == AcquiredRequest(S, w, k)
    IN IF acq = NoReq THEN YieldTimeout(S, w, k, "fallback")
       ELSE LET S1 == CancelAll(S, Requests(w, k))
                S2 == LogRecord(S1, w, k - 1)
                S3 == Release(S2, S.current[w])
            IN YieldTimeout(
                 [S3 EXCEPT !.current[w] = acq,
                            !.resource_start_time[w] = S.now,
                            !.adopted[w] = Append(@, [k |-> k, p |-> acq.p, t |-> S.now])],
                 w, k, "process")

(* ------------------------------ actions -------------------------------- *)
HeadIs(type) == queue # <<>> /\ Head(queue).ev.type = type
HeadEv == Head(queue).ev

\* env.process(...) for wafers i..n: each Initialize event is scheduled URGENT
RECURSIVE StartProcesses(_, _, _, _)
StartProcesses(q, t, i, n) ==
    IF i > n THEN q
    ELSE StartProcesses(Schedule(q, t, URGENT, Ev("init", i, 0, NoPart)), t, i + 1, n)

\* lot_process up to "yield simpy.AllOf(env, processes)"
LotStart ==
    /\ HeadIs("lotinit")
    /\ LET S == Pop(State)
       IN Commit([S EXCEPT !.queue = StartProcesses(@, S.now, 1, num_wafers),
                           !.lot_pc = "waiting"])
    /\ UNCHANGED <<poolVars, unitVars>>

\* wafer_process from its start to its first yield
WaferStart ==
    /\ HeadIs("init")
    /\ LET S == Pop(State)
           w == HeadEv.w
           S1 == [S EXCEPT !.start_time_tracker[w] = S.now]
       IN Commit(IF sorted_flow = <<>> THEN End(S1, w) ELSE ForLoop(S1, w, 1))
    /\ UNCHANGED <<poolVars, unitVars>>

\* a granted request's event is processed
RequestProcessed ==
    /\ HeadIs("req")
    /\ Commit(Notify(Pop(State), HeadEv))
    /\ UNCHANGED <<poolVars, unitVars>>

\* an acquisition timeout event is processed
TimeoutProcessed ==
    /\ HeadIs("tmo")
    /\ Commit(Notify(Pop(State), HeadEv))
    /\ UNCHANGED <<poolVars, unitVars>>

FirstStepTimeout ==
    /\ HeadIs("cond")
    /\ current[HeadEv.w] = NoReq
    /\ TimeoutInResult(State, HeadEv.w, HeadEv.k)
    /\ Commit(FirstTimeout(Pop(State), HeadEv.w, HeadEv.k))
    /\ UNCHANGED <<poolVars, unitVars>>

FirstStepAcquired ==
    /\ HeadIs("cond")
    /\ current[HeadEv.w] = NoReq
    /\ ~TimeoutInResult(State, HeadEv.w, HeadEv.k)
    /\ Commit(FirstAcquired(Pop(State), HeadEv.w, HeadEv.k))
    /\ UNCHANGED <<poolVars, unitVars>>

NextStepTimeout ==
    /\ HeadIs("cond")
    /\ current[HeadEv.w] # NoReq
    /\ TimeoutInResult(State, HeadEv.w, HeadEv.k)
    /\ Commit(NextTimeout(Pop(State), HeadEv.w, HeadEv.k))
    /\ UNCHANGED <<poolVars, unitVars>>

NextStepAcquired ==
    /\ HeadIs("cond")
    /\ current[HeadEv.w] # NoReq
    /\ ~TimeoutInResult(State, HeadEv.w, HeadEv.k)
    /\ Commit(NextAcquired(Pop(State), HeadEv.w, HeadEv.k))
    /\ UNCHANGED <<poolVars, unitVars>>

\* a processing delay ends: the for loop goes on with the next step
DelayDone ==
    /\ HeadIs("delay")
    /\ Commit(ForLoop(Pop(State), HeadEv.w, HeadEv.k + 1))
    /\ UNCHANGED <<poolVars, unitVars>>

\* a Release event is processed: its callback is _trigger_put
ReleaseProcessed ==
    /\ HeadIs("rel")
    /\ Commit(TriggerPut(Pop(State), HeadEv.p))
    /\ UNCHANGED <<poolVars, unitVars>>

\* a wafer's process event is processed: AllOf._check
WaferEnded ==
    /\ HeadIs("end")
    /\ LET S == Pop(State)
           done == ended \cup {HeadEv.w}
       IN Commit([S EXCEPT !.ended = done,
                           !.queue = IF done = Wafers
                                     THEN Schedule(@, S.now, NORMAL, Ev("allof", 0, 0, NoPart))
                                     ELSE @])
    /\ UNCHANGED <<poolVars, unitVars>>

\* lot_process resumes after AllOf and returns
LotDone ==
    /\ HeadIs("allof")
    /\ Commit([Pop(State) EXCEPT !.lot_pc = "done"])
    /\ UNCHANGED <<poolVars, unitVars>>

(* ------------------------- state of the flow units --------------------- *)
\* a Source without a maximum (max_arrivals 0 or None) is followed for its
\* first MaxArrivals + 1 agents
GenerationCap == IF max_arrivals = 0 THEN MaxArrivals + 1 ELSE max_arrivals
Agents == 1..GenerationCap

UnitState ==
    [generated_count |-> generated_count, agent_pc |-> agent_pc,
     agents_entered |-> agents_entered, agents_exited |-> agents_exited,
     attributes |-> attributes, buffer |-> buffer,
     processing_agents |-> processing_agents, waiting_agents |-> waiting_agents,
     batch_count |-> batch_count, rejected_agents |-> rejected_agents,
     total_queue_time |-> total_queue_time,
     total_service_time |-> total_service_time,
     queue_start_times |-> queue_start_times,
     service_start_times |-> service_start_times,
     completed_agents |-> completed_agents, dropped |-> dropped, sent |-> sent,
     arrived |-> arrived, started |-> started, exited |-> exited,
     batches |-> batches]

CommitUnit(U) ==
    /\ generated_count' = U.generated_count
    /\ agent_pc' = U.agent_pc
    /\ agents_entered' = U.agents_entered
    /\ agents_exited' = U.agents_exited
    /\ attributes' = U.attributes
    /\ buffer' = U.buffer
    /\ processing_agents' = U.processing_agents
    /\ waiting_agents' = U.waiting_agents
    /\ batch_count' = U.batch_count
    /\ rejected_agents' = U.rejected_agents
    /\ total_queue_time' = U.total_queue_time
    /\ total_service_time' = U.total_service_time
    /\ queue_start_times' = U.queue_start_times
    /\ service_start_times' = U.service_start_times
    /\ completed_agents' = U.completed_agents
    /\ dropped' = U.dropped
    /\ sent' = U.sent
    /\ arrived' = U.arrived
    /\ started' = U.started
    /\ exited' = U.exited
    /\ batches' = U.batches

\* a step of a flow unit works on the kernel state and on the unit state
Both(S, U) == [S |-> S, U |-> U]
CommitBoth(B) == Commit(B.S) /\ CommitUnit(B.U)

\* "self.env.process(port.receive_agent(agent))": the Initialize event of the
\* new process is scheduled URGENT at the current time
HandOff(B, a, port) ==
    Both([B.S EXCEPT !.queue = Schedule(@, B.S.now, URGENT, Ev("arrive", a, 0, port))],
         [B.U EXCEPT !.sent = Append(@, [a |-> a, port |-> port, t |-> B.S.now])])

\* FlowUnit.send_agent: hand the agent to output_port if there is one
send_agent(B, a) == IF connected THEN HandOff(B, a, SinkUnit) ELSE B

\* the receiving unit's "agents_entered += 1" with the time of the call
Entered(U, a, t) ==
    [U EXCEPT !.agents_entered = @ + 1, !.arrived[a] = t]

\* the unit's "agents_exited += 1" for agent a, with the time
Exited(U, a, t) ==
    [U EXCEPT !.agents_exited = @ + 1, !.agent_pc[a] = "done", !.exited[a] = t]

\* a rejection branch was taken for agent a
Dropped(U, a) == [U EXCEPT !.dropped = Append(@, a), !.agent_pc[a] = "rejected"]

\* priority insert of Queue / Service: before the first stored agent whose
\* priority value is strictly greater, else at the end
RECURSIVE InsertByPriority(_, _, _)
InsertByPriority(q, a, attrs) ==
    IF q = <<>> THEN <<a>>
    ELSE IF attrs[a].priority < attrs[Head(q)].priority THEN <<a>> \o q
         ELSE <<Head(q)>> \o InsertByPriority(Tail(q), a, attrs)

\* "self.queue.append(agent)" in its FIFO and its priority form
Enqueue(q, a, attrs) ==
    IF priority_func THEN InsertByPriority(q, a, attrs) ELSE Append(q, a)

(* ------------------------------- Source -------------------------------- *)
AgentReq(a) == [w |-> a, k |-> 0, p |-> unit]

\* Source._generation_process, one turn of the while loop up to its yield
GenerationLoop(S, count, inter) ==
    IF max_arrivals # 0 /\ count >= max_arrivals THEN S
    ELSE IF count >= GenerationCap THEN S
    ELSE [S EXCEPT !.queue = Schedule(@, S.now + inter, NORMAL, Ev("gen", 0, 0, NoPart))]

SourceStart ==
    /\ HeadIs("srcinit")
    /\ \E inter \in InterArrivals :
          Commit(GenerationLoop(Pop(State), generated_count, inter))
    /\ UNCHANGED <<poolVars, unitVars>>

\* what priority_func and condition_func will return for a new agent
AgentAttributes ==
    [priority : IF priority_func THEN Priorities ELSE {DefaultPriority},
     cond : IF unit = SelectUnit THEN BOOLEAN ELSE {FALSE}]

\* the inter-arrival timeout fires: create the agent, send_agent, loop
SourceGenerate ==
    /\ HeadIs("gen")
    /\ \E inter \in InterArrivals : \E attrs \in AgentAttributes :
          LET S == Pop(State)
              a == generated_count + 1
              S1 == [S EXCEPT !.queue = Schedule(@, S.now, URGENT, Ev("arrive", a, 0, unit))]
          IN /\ Commit(GenerationLoop(S1, a, inter))
             /\ CommitUnit([UnitState EXCEPT !.generated_count = a,
                                             !.attributes[a] =
                                                 [priority |-> attrs.priority,
                                                  cond |-> attrs.cond,
                                                  creation_time |-> S.now]])

(* ---------------------------- ResourcePool ----------------------------- *)
\* ResourcePool.receive_agent up to "yield request"
PoolReceive ==
    /\ HeadIs("arrive") /\ HeadEv.p = PoolRes
    /\ LET a == HeadEv.w
           S == Pop(State)
       IN /\ Commit(IF priority_func
                    THEN PriorityRequest(S, AgentReq(a), attributes[a].priority)
                    ELSE Request(S, AgentReq(a)))
          /\ CommitUnit([Entered(UnitState, a, S.now) EXCEPT !.agent_pc[a] = "seize"])

\* the request event is processed: "yield self.env.timeout(service)"
PoolSeized ==
    /\ HeadIs("seize") /\ HeadEv.p = PoolRes
    /\ LET a == HeadEv.w
           S == Pop(State)
       IN /\ Commit([S EXCEPT !.queue = Schedule(@, S.now + service_time, NORMAL,
                                                  Ev("svc", a, 0, PoolRes))])
          /\ CommitUnit([UnitState EXCEPT !.agent_pc[a] = "service",
                                          !.started[a] = S.now])

\* the service ends: release the resource, count the exit, send_agent
PoolRelease ==
    /\ HeadIs("svc") /\ HeadEv.p = PoolRes
    /\ LET a == HeadEv.w
           S == Release(Pop(State), AgentReq(a))
       IN CommitBoth(send_agent(Both(S, Exited(UnitState, a, S.now)), a))

(* ------------------------------ Service -------------------------------- *)
\* Service._service_process from the head of its while loop to "yield request"
ServiceLoop(B) ==
    IF B.U.buffer = <<>> THEN B
    ELSE LET a == Head(B.U.buffer)
             known == B.U.queue_start_times[a] # NoTime
             U1 == [B.U EXCEPT
                      !.buffer = Tail(@),
                      !.total_queue_time =
                          IF known THEN @ + (B.S.now - B.U.queue_start_times[a]) ELSE @,
                      !.queue_start_times[a] = NoTime,
                      !.agent_pc[a] = "seize"]
             S1 == IF priority_func
                   THEN PriorityRequest(B.S, AgentReq(a), DefaultPriority)
                   ELSE Request(B.S, AgentReq(a))
         IN Both(S1, U1)

\* Service.receive_agent: reject at queue capacity, else queue the agent and
\* run _service_process up to its first yield
ServiceReceive ==
    /\ HeadIs("arrive") /\ HeadEv.p = ServiceRes
    /\ LET a == HeadEv.w
           S == Pop(State)
           U == Entered(UnitState, a, S.now)
       IN IF Len(buffer) >= queue_capacity
          THEN /\ Commit(S)
               /\ CommitUnit(Dropped([U EXCEPT !.rejected_agents = @ + 1], a))
          ELSE CommitBoth(ServiceLoop(Both(S,
                   [U EXCEPT !.queue_start_times[a] = S.now,
                             !.buffer = Enqueue(@, a, attributes)])))

\* the request is granted: the agent starts service; setup delay if any,
\* else the service delay
ServiceSeized ==
    /\ HeadIs("seize") /\ HeadEv.p = ServiceRes
    /\ LET a == HeadEv.w
           S == Pop(State)
       IN /\ Commit([S EXCEPT !.queue =
                        IF setup_time > 0
                        THEN Schedule(@, S.now + setup_time, NORMAL, Ev("setup", a, 0, ServiceRes))
                        ELSE Schedule(@, S.now + service_time, NORMAL, Ev("svc", a, 0, ServiceRes))])
          /\ CommitUnit([UnitState EXCEPT
                            !.processing_agents = Append(@, a),
                            !.service_start_times[a] = S.now,
                            !.started[a] = S.now,
                            !.agent_pc[a] = IF setup_time > 0 THEN "setup" ELSE "service"])

\* the setup delay ends: "yield self.env.timeout(service)"
ServiceSetupDone ==
    /\ HeadIs("setup")
    /\ LET a == HeadEv.w
           S == Pop(State)
       IN /\ Commit([S EXCEPT !.queue = Schedule(@, S.now + service_time, NORMAL,
                                                  Ev("svc", a, 0, ServiceRes))])
          /\ CommitUnit([UnitState EXCEPT !.agent_pc[a] = "service"])

\* the service delay ends: account, release, forward, go round the loop
ServiceComplete ==
    /\ HeadIs("svc") /\ HeadEv.p = ServiceRes
    /\ LET a == HeadEv.w
           S == Release(Pop(State), AgentReq(a))
           known == service_start_times[a] # NoTime
           U == [Exited(UnitState, a, S.now) EXCEPT
                    !.processing_agents = Remove(@, a),
                    !.total_service_time =
                        IF known THEN @ + (S.now - service_start_times[a]) ELSE @,
                    !.service_start_times[a] = NoTime]
       IN CommitBoth(ServiceLoop(send_agent(Both(S, U), a)))

(* ------------------------------- Queue --------------------------------- *)
\* variant: the head is forwarded only when another agent is behind it
TryForwardKeepsOne(B) ==
    IF Len(B.U.buffer) > 1 /\ connected
    THEN LET a == Head(B.U.buffer)
         IN send_agent(Both(B.S, [Exited(B.U, a, B.S.now) EXCEPT !.buffer = Tail(@)]), a)
    ELSE B

\* Queue._try_forward_agent: forward the head if there is an output
TryForward(B) ==
    IF B.U.buffer # <<>> /\ connected
    THEN LET a == Head(B.U.buffer)
         IN send_agent(Both(B.S, [Exited(B.U, a, B.S.now) EXCEPT !.buffer = Tail(@)]), a)
    ELSE B

\* Queue.receive_agent: store the agent and try to forward, or reject it
QueueReceive ==
    /\ HeadIs("arrive") /\ HeadEv.p = QueueUnit
    /\ LET a == HeadEv.w
           S == Pop(State)
           U == Entered(UnitState, a, S.now)
       IN IF Len(buffer) < capacity
          THEN CommitBoth(TryForward(Both(S,
                   [U EXCEPT !.buffer = Enqueue(@, a, attributes),
                             !.agent_pc[a] = "queued"])))
          ELSE Commit(S) /\ CommitUnit(Dropped(U, a))

(* ------------------------------- Delay --------------------------------- *)
\* variant: the delay process waits one time unit longer
DelayReceiveLate ==
    /\ HeadIs("arrive") /\ HeadEv.p = DelayUnit
    /\ LET a == HeadEv.w
           S == Pop(State)
       IN IF Len(processing_agents) >= capacity
          THEN Commit(S) /\ CommitUnit(Dropped(UnitState, a))
          ELSE /\ Commit([S EXCEPT !.queue = Schedule(@, S.now + delay_time + 1, NORMAL,
                                                      Ev("delayed", a, 0, DelayUnit))])
               /\ CommitUnit([Entered(UnitState, a, S.now) EXCEPT
                                 !.processing_agents = Append(@, a),
                                 !.agent_pc[a] = "delay"])

\* Delay.receive_agent: reject at capacity (before agents_entered is
\* counted), else start the delay
DelayReceive ==
    /\ HeadIs("arrive") /\ HeadEv.p = DelayUnit
    /\ LET a == HeadEv.w
           S == Pop(State)
       IN IF Len(processing_agents) >= capacity
          THEN Commit(S) /\ CommitUnit(Dropped(UnitState, a))
          ELSE /\ Commit([S EXCEPT !.queue = Schedule(@, S.now + delay_time, NORMAL,
                                                      Ev("delayed", a, 0, DelayUnit))])
               /\ CommitUnit([Entered(UnitState, a, S.now) EXCEPT
                                 !.processing_agents = Append(@, a),
                                 !.agent_pc[a] = "delay"])

\* Delay._delay_process after its timeout: remove, count, forward
DelayComplete ==
    /\ HeadIs("delayed")
    /\ LET a == HeadEv.w
           S == Pop(State)
           U == [Exited(UnitState, a, S.now) EXCEPT !.processing_agents = Remove(@, a)]
       IN CommitBoth(send_agent(Both(S, U), a))

(* ---------------------------- SelectOutput ----------------------------- *)
\* variant: both branches lead to the true output
SelectReceiveAlwaysTrue ==
    /\ HeadIs("arrive") /\ HeadEv.p = SelectUnit
    /\ LET a == HeadEv.w
           S == Pop(State)
           U == Exited(Entered(UnitState, a, S.now), a, S.now)
       IN CommitBoth(IF connected THEN HandOff(Both(S, U), a, TrueSink)
                     ELSE Both(S, U))

\* SelectOutput.receive_agent: route on condition_func(agent); "connected"
\* says that both true_output and false_output are set
SelectReceive ==
    /\ HeadIs("arrive") /\ HeadEv.p = SelectUnit
    /\ LET a == HeadEv.w
           S == Pop(State)
           U == Exited(Entered(UnitState, a, S.now), a, S.now)
       IN CommitBoth(IF attributes[a].cond
                     THEN (IF connected THEN HandOff(Both(S, U), a, TrueSink)
                           ELSE Both(S, U))
                     ELSE (IF connected THEN HandOff(Both(S, U), a, FalseSink)
                           ELSE Both(S, U)))

(* ------------------------------- Combine ------------------------------- *)
\* "for agent in batch: self.agents_exited += 1; self.send_agent(agent)"
RECURSIVE SendBatch(_, _)
SendBatch(B, batch) ==
    IF batch = <<>> THEN B
    ELSE LET a == Head(batch)
         IN SendBatch(send_agent(Both(B.S, Exited(B.U, a, B.S.now)), a), Tail(batch))

\* a Python slice bound: negative counts from the end, all clipped to the list
SliceBound(n, len) ==
    IF n < 0 THEN (IF len + n < 0 THEN 0 ELSE len + n)
    ELSE (IF n > len THEN len ELSE n)

\* Combine._process_batch: the first required_agents waiting agents leave
ProcessBatch(B) ==
    LET w == B.U.waiting_agents
        n == SliceBound(required_agents, Len(w))
    IN SendBatch(Both(B.S, [B.U EXCEPT !.waiting_agents = SubSeq(w, n + 1, Len(w)),
                                       !.batch_count = @ + 1,
                                       !.batches = Append(@, [members |-> SubSeq(w, 1, n),
                                                              t |-> B.S.now])]),
                 SubSeq(w, 1, n))

\* "elif self.timeout: self.env.process(self._timeout_process())": the
\* Initialize event of the new process is scheduled URGENT at the current time
StartTimeoutProcess(B) ==
    IF timeout # 0
    THEN Both([B.S EXCEPT !.queue = Schedule(@, B.S.now, URGENT,
                                             Ev("batchinit", 0, 0, CombineUnit))], B.U)
    ELSE B

\* variant: the batch is released one agent early
CombineReceiveEarly ==
    /\ HeadIs("arrive") /\ HeadEv.p = CombineUnit
    /\ LET a == HeadEv.w
           S == Pop(State)
           U == [Entered(UnitState, a, S.now) EXCEPT !.waiting_agents = Append(@, a),
                                                     !.agent_pc[a] = "waiting"]
       IN CommitBoth(IF Len(U.waiting_agents) >= required_agents - 1
                     THEN ProcessBatch(Both(S, U))
                     ELSE StartTimeoutProcess(Both(S, U)))

\* Combine.receive_agent
CombineReceive ==
    /\ HeadIs("arrive") /\ HeadEv.p = CombineUnit
    /\ LET a == HeadEv.w
           S == Pop(State)
           U == [Entered(UnitState, a, S.now) EXCEPT !.waiting_agents = Append(@, a),
                                                     !.agent_pc[a] = "waiting"]
       IN CommitBoth(IF Len(U.waiting_agents) >= required_agents
                     THEN ProcessBatch(Both(S, U))
                     ELSE StartTimeoutProcess(Both(S, U)))

\* Combine._timeout_process up to its yield: initial_count is read when the
\* process starts, and travels with the timeout event
CombineTimeoutStart ==
    /\ HeadIs("batchinit")
    /\ LET S == Pop(State)
       IN Commit([S EXCEPT !.queue = Schedule(@, S.now + timeout, NORMAL,
                              Ev("batchtmo", 0, Len(waiting_agents), CombineUnit))])
    /\ UNCHANGED <<poolVars, unitVars>>

\* the timeout of Combine._timeout_process fires
CombineTimeout ==
    /\ HeadIs("batchtmo")
    /\ LET S == Pop(State)
           initial_count == HeadEv.k
       IN CommitBoth(IF Len(waiting_agents) = initial_count /\ waiting_agents # <<>>
                     THEN ProcessBatch(Both(S, UnitState))
                     ELSE Both(S, UnitState))

(* -------------------------------- Sink --------------------------------- *)
\* Sink.receive_agent
SinkReceive ==
    /\ HeadIs("arrive") /\ HeadEv.p \in {SinkUnit, TrueSink, FalseSink}
    /\ LET S == Pop(State)
       IN /\ Commit(S)
          /\ CommitUnit([UnitState EXCEPT !.completed_agents =
                            Append(@, [a |-> HeadEv.w, port |-> HeadEv.p, t |-> S.now])])

(* ------------------------------ Init / Next ---------------------------- *)
\* a transfer step is dropped before any of its other fields is read
StepShapes ==
    [unit_id : Units, duration_min : Durations, transfer : {FALSE}]
    \cup [unit_id : {"A"}, duration_min : {0}, transfer : {TRUE}]

ResourcesInit(resources) ==
    /\ users = [r \in resources |-> <<>>]
    /\ put_queue = [r \in resources |-> <<>>]
    /\ triggered = {}
    /\ processed = {}
    /\ released = <<>>
    /\ request_log = <<>>
    /\ grant_log = <<>>

KernelInit(first, resources) ==
    /\ now = 0
    /\ queue = <<[time |-> 0, prio |-> URGENT, ev |-> Ev(first, 0, 0, NoPart)]>>
    /\ ResourcesInit(resources)

WafersInit ==
    /\ pc = [w \in 1..num_wafers |-> "init"]
    /\ idx = [w \in 1..num_wafers |-> 0]
    /\ current = [w \in 1..num_wafers |-> NoReq]
    /\ resource_start_time = [w \in 1..num_wafers |-> NoTime]
    /\ condTriggered = [w \in 1..num_wafers |-> FALSE]
    /\ wafer_log = <<>>
    /\ start_time_tracker = [w \in 1..num_wafers |-> NoTime]
    /\ end_time_tracker = [w \in 1..num_wafers |-> NoTime]
    /\ adopted = [w \in 1..num_wafers |-> <<>>]
    /\ timedOut = [w \in 1..num_wafers |-> {}]
    /\ wait_since = [w \in 1..num_wafers |-> NoTime]
    /\ ended = {}
    /\ lot_pc = "init"

AgentsInit ==
    /\ generated_count = 0
    /\ agent_pc = [a \in Agents |-> "none"]
    /\ agents_entered = 0
    /\ agents_exited = 0
    /\ attributes = [a \in Agents |->
                         [priority |-> DefaultPriority, cond |-> FALSE,
                          creation_time |-> NoTime]]
    /\ buffer = <<>>
    /\ processing_agents = <<>>
    /\ waiting_agents = <<>>
    /\ batch_count = 0
    /\ rejected_agents = 0
    /\ total_queue_time = 0
    /\ total_service_time = 0
    /\ queue_start_times = [a \in Agents |-> NoTime]
    /\ service_start_times = [a \in Agents |-> NoTime]
    /\ completed_agents = <<>>
    /\ dropped = <<>>
    /\ sent = <<>>
    /\ arrived = [a \in Agents |-> NoTime]
    /\ started = [a \in Agents |-> NoTime]
    /\ exited = [a \in Agents |-> NoTime]
    /\ batches = <<>>

\* no wafer lot in the flow-unit simulations
NoLot ==
    /\ num_wafers = 0
    /\ status = NoStatus
    /\ unit_capability = [u \in Units |-> 0]
    /\ unit_flow = <<>>
    /\ WafersInit

\* no WaferSource and no simulator driver in the other simulations
NoWaferSource ==
    /\ max_lots = 0
    /\ lot_size = 0
    /\ duration = 0
    /\ lot_count = 0
    /\ wafer_agents = <<>>
    /\ tool_units = <<>>
    /\ wafer_logs = <<>>
    /\ sim_pc = "none"

\* no MetalToolSimulator of semiconductor_simulator in the other simulations
NoMetal ==
    /\ metal_lots = <<>>
    /\ occupied_process_chambers = 0
    /\ occupied_degas_chambers = 0
    /\ lot_proc = <<>>
    /\ wafer_proc = <<>>

\* the constructor defaults of the parameters a unit does not take
\* (capacity = inf is a capacity no run in these bounds can reach)
DefaultsExcept(given) ==
    /\ IF "pool_capacity" \in given THEN TRUE ELSE pool_capacity = 1
    /\ IF "service_time" \in given THEN TRUE ELSE service_time = 0
    /\ IF "connected" \in given THEN TRUE ELSE connected = FALSE
    /\ IF "priority_func" \in given THEN TRUE ELSE priority_func = FALSE
    /\ IF "capacity" \in given THEN TRUE ELSE capacity = MaxArrivals + 1
    /\ IF "queue_capacity" \in given THEN TRUE ELSE queue_capacity = MaxArrivals + 1
    /\ IF "setup_time" \in given THEN TRUE ELSE setup_time = 0
    /\ IF "delay_time" \in given THEN TRUE ELSE delay_time = 0
    /\ IF "required_agents" \in given THEN TRUE ELSE required_agents = 2
    /\ IF "timeout" \in given THEN TRUE ELSE timeout = 0
    /\ IF "lots" \in given THEN TRUE ELSE NoWaferSource
    /\ IF "metal" \in given THEN TRUE ELSE NoMetal

\* tool_simulator: a MetalTool, a flow and a lot, lot_process just started
InitTool ==
    /\ num_wafers \in 1..MaxWafers
    /\ status = NoStatus
    /\ unit_capability \in [Units -> 0..MaxInstances]
    /\ \E n \in 0..MaxSteps : \E f \in [1..n -> StepShapes] : \E descending \in BOOLEAN :
          unit_flow = [i \in 1..n |->
                          [unit_id |-> f[i].unit_id,
                           seq_id |-> IF descending THEN n + 1 - i ELSE i,
                           duration_min |-> f[i].duration_min,
                           transfer |-> f[i].transfer]]
    /\ max_arrivals = 0
    /\ unit = NoPart
    /\ DefaultsExcept({})
    /\ KernelInit("lotinit", AllParts)
    /\ WafersInit
    /\ AgentsInit

\* anylogic_flow_units: a Source connected to a ResourcePool, generation started
InitPool ==
    /\ NoLot
    /\ unit = PoolRes
    /\ pool_capacity \in 1..MaxCapacity
    /\ service_time \in ServiceTimes
    /\ max_arrivals \in 1..MaxArrivals
    /\ connected \in BOOLEAN
    /\ priority_func \in BOOLEAN
    /\ DefaultsExcept({"pool_capacity", "service_time", "connected", "priority_func"})
    /\ KernelInit("srcinit", {PoolRes})
    /\ AgentsInit

\* a Source connected to a Service
InitService ==
    /\ NoLot
    /\ unit = ServiceRes
    /\ pool_capacity \in 1..MaxCapacity
    /\ service_time \in ServiceTimes
    /\ setup_time \in SetupTimes
    /\ queue_capacity \in 0..MaxCapacity
    /\ max_arrivals \in 1..MaxArrivals
    /\ connected \in BOOLEAN
    /\ priority_func \in BOOLEAN
    /\ DefaultsExcept({"pool_capacity", "service_time", "setup_time", "queue_capacity",
                       "connected", "priority_func"})
    /\ KernelInit("srcinit", {ServiceRes})
    /\ AgentsInit

\* a Source connected to a Queue
InitQueue ==
    /\ NoLot
    /\ unit = QueueUnit
    /\ capacity \in 0..MaxCapacity
    /\ max_arrivals \in 1..MaxArrivals
    /\ connected \in BOOLEAN
    /\ priority_func \in BOOLEAN
    /\ DefaultsExcept({"capacity", "connected", "priority_func"})
    /\ KernelInit("srcinit", {})
    /\ AgentsInit

\* a Source connected to a Delay
InitDelay ==
    /\ NoLot
    /\ unit = DelayUnit
    /\ capacity \in 0..MaxCapacity
    /\ delay_time \in DelayTimes
    /\ max_arrivals \in 1..MaxArrivals
    /\ connected \in BOOLEAN
    /\ DefaultsExcept({"capacity", "delay_time", "connected"})
    /\ KernelInit("srcinit", {})
    /\ AgentsInit

\* a Source connected to a SelectOutput
InitSelect ==
    /\ NoLot
    /\ unit = SelectUnit
    /\ max_arrivals \in 1..MaxArrivals
    /\ connected \in BOOLEAN
    /\ DefaultsExcept({"connected"})
    /\ KernelInit("srcinit", {})
    /\ AgentsInit

\* a Source connected to a Combine
InitCombine ==
    /\ NoLot
    /\ unit = CombineUnit
    /\ required_agents \in 0..MaxBatch
    /\ timeout \in CombineTimeouts
    /\ max_arrivals \in 1..MaxArrivals
    /\ connected \in BOOLEAN
    /\ DefaultsExcept({"required_agents", "timeout", "connected"})
    /\ KernelInit("srcinit", {})
    /\ AgentsInit

\* a Source connected to a Sink, with or without a maximum
InitSource ==
    /\ NoLot
    /\ unit = SinkUnit
    /\ max_arrivals \in 0..MaxArrivals
    /\ DefaultsExcept({})
    /\ KernelInit("srcinit", {})
    /\ AgentsInit

Init == InitTool \/ InitPool
InitFlow == InitPool \/ InitService \/ InitQueue \/ InitDelay \/ InitSelect \/ InitCombine

NextTool ==
    \/ LotStart
    \/ WaferStart
    \/ RequestProcessed
    \/ TimeoutProcessed
    \/ FirstStepTimeout
    \/ FirstStepAcquired
    \/ NextStepTimeout
    \/ NextStepAcquired
    \/ DelayDone
    \/ ReleaseProcessed
    \/ WaferEnded
    \/ LotDone

NextPool ==
    \/ SourceStart
    \/ SourceGenerate
    \/ PoolReceive
    \/ PoolSeized
    \/ PoolRelease
    \/ ReleaseProcessed
    \/ SinkReceive

NextService ==
    \/ SourceStart
    \/ SourceGenerate
    \/ ServiceReceive
    \/ ServiceSeized
    \/ ServiceSetupDone
    \/ ServiceComplete
    \/ ReleaseProcessed
    \/ SinkReceive

NextSource == SourceStart \/ SourceGenerate \/ SinkReceive
NextQueue == SourceStart \/ SourceGenerate \/ QueueReceive \/ SinkReceive
NextDelay == SourceStart \/ SourceGenerate \/ DelayReceive \/ DelayComplete \/ SinkReceive
NextSelect == SourceStart \/ SourceGenerate \/ SelectReceive \/ SinkReceive
NextCombine ==
    \/ SourceStart
    \/ SourceGenerate
    \/ CombineReceive
    \/ CombineTimeoutStart
    \/ CombineTimeout
    \/ SinkReceive

NextFlow ==
    \/ SourceStart
    \/ SourceGenerate
    \/ PoolReceive
    \/ PoolSeized
    \/ PoolRelease
    \/ ServiceReceive
    \/ ServiceSeized
    \/ ServiceSetupDone
    \/ ServiceComplete
    \/ ReleaseProcessed
    \/ QueueReceive
    \/ DelayReceive
    \/ DelayComplete
    \/ SelectReceive
    \/ CombineReceive
    \/ CombineTimeoutStart
    \/ CombineTimeout
    \/ SinkReceive

Next == NextTool \/ NextPool

Spec == Init /\ [][Next]_vars
SpecTool == InitTool /\ [][NextTool]_vars
SpecPool == InitPool /\ [][NextPool]_vars
SpecSource == InitSource /\ [][NextSource]_vars
SpecService == InitService /\ [][NextService]_vars
SpecQueue == InitQueue /\ [][NextQueue]_vars
SpecDelay == InitDelay /\ [][NextDelay]_vars
SpecSelect == InitSelect /\ [][NextSelect]_vars
SpecCombine == InitCombine /\ [][NextCombine]_vars
SpecFlow == InitFlow /\ [][NextFlow]_vars

(* -------------------- WaferSource and the simulators ------------------- *)
\* sorted(self.unit_flow, key=lambda x: int(x['seq_id']))
flow_sequence == SortBySeq(unit_flow)

\* self.units: one SemiconductorToolUnit per capability entry but LOADPORT
ToolUnits == DOMAIN unit_capability \ {"LOADPORT"}

\* the resource_id of a record made without a resource
NotApplicable == <<"N/A", 0>>

\* the unit the Source is connected to: the first non-LOADPORT step's unit
RECURSIVE first_unit(_)
first_unit(f) ==
    IF f = <<>> THEN ""
    ELSE IF Head(f).unit_id # "LOADPORT" THEN Head(f).unit_id
         ELSE first_unit(Tail(f))

SourcePort ==
    LET u == first_unit(flow_sequence)
    IN IF u # "" /\ u \in ToolUnits THEN <<u, 0>> ELSE NoPart

\* the connect_to calls of _connect_flow_units for the steps f, in call order
RECURSIVE ConnectChain(_, _)
ConnectChain(f, prev_unit) ==
    IF f = <<>>
    THEN (IF prev_unit # "" /\ prev_unit \in ToolUnits
          THEN <<[from |-> prev_unit, to |-> SinkUnit]>>
          ELSE <<>>)
    ELSE LET current_unit == Head(f).unit_id
         IN IF current_unit = "LOADPORT" THEN ConnectChain(Tail(f), prev_unit)
            ELSE IF current_unit \in ToolUnits
                 THEN (IF prev_unit # "" /\ prev_unit # current_unit
                          /\ prev_unit \in ToolUnits
                       THEN <<[from |-> prev_unit, to |-> <<current_unit, 0>>]>>
                       ELSE <<>>)
                      \o ConnectChain(Tail(f), current_unit)
                 ELSE ConnectChain(Tail(f), prev_unit)

\* FlowUnit.connect_to assigns output_port: the last call for a unit stands
output_port(u) ==
    LET calls == ConnectChain(flow_sequence, "")
        mine == {i \in 1..Len(calls) : calls[i].from = u}
    IN IF mine = {} THEN NoPart
       ELSE calls[CHOOSE i \in mine : \A j \in mine : j <= i].to

\* WaferAgent.__init__, with the locals of the process that will carry it
WaferAgent(t) ==
    [current_seq_id |-> 1, processing_history |-> <<>>, creation_time |-> t,
     start_time |-> NoTime]

\* WaferSource._generation_process: LotLoop is the for loop from wafer_idx
\* to its yield, WhileLoop the head of the while loop
RECURSIVE LotLoop(_, _, _)
RECURSIVE WhileLoop(_, _)
LotLoop(B, wafer_idx, gap) ==
    IF wafer_idx < lot_size
    THEN LET w == B.U.generated_count + 1
             B1 == Both([B.S EXCEPT !.wafer_agents = Append(@, WaferAgent(B.S.now))],
                        [B.U EXCEPT !.generated_count = w])
             B2 == IF unit # NoPart THEN HandOff(B1, w, unit) ELSE B1
         IN Both([B2.S EXCEPT !.queue = Schedule(@, B2.S.now + gap, NORMAL,
                                      Ev("wafergap", 0, wafer_idx + 1, NoPart))],
                 B2.U)
    ELSE LET S1 == [B.S EXCEPT !.lot_count = @ + 1]
         IN IF S1.lot_count < max_lots
            THEN Both([S1 EXCEPT !.queue = Schedule(@, S1.now + LotInterval, NORMAL,
                                                    Ev("lotgap", 0, 0, NoPart))],
                      B.U)
            ELSE WhileLoop(Both(S1, B.U), gap)

WhileLoop(B, gap) ==
    IF max_lots # 0 /\ B.S.lot_count >= max_lots THEN B
    ELSE LotLoop(B, 0, gap)

WaferSourceStart ==
    /\ HeadIs("lotsinit")
    /\ \E gap \in WaferGaps :
          CommitBoth(WhileLoop(Both(Pop(State), UnitState), gap))

\* the delay between two wafers, or between two lots, has passed
WaferSourceResume ==
    /\ HeadIs("wafergap") \/ HeadIs("lotgap")
    /\ \E gap \in WaferGaps :
          LET B == Both(Pop(State), UnitState)
          IN CommitBoth(IF HeadEv.type = "lotgap" THEN WhileLoop(B, gap)
                        ELSE LotLoop(B, HeadEv.k, gap))

(* ------------------------ SemiconductorToolUnit ------------------------ *)
\* the positions in flow_sequence of the steps in unit_flow_steps whose
\* seq_id is the agent's current_seq_id
CurrentStep(u, seq) ==
    {i \in 1..Len(flow_sequence) :
        flow_sequence[i].unit_id = u /\ flow_sequence[i].seq_id = seq}

\* get_next_resource: what it returns, and what it does to resource_index
NextResource(S, u) ==
    LET resource_names == UnitToParts(u)
    IN IF Len(resource_names) = 1 THEN resource_names[1]
       ELSE resource_names[S.tool_units[u].resource_index + 1]

\* variant: the round-robin index never moves
AdvanceIndexNever(S, u) == S

AdvanceIndex(S, u) ==
    LET resource_names == UnitToParts(u)
    IN IF Len(resource_names) = 1 THEN S
       ELSE [S EXCEPT !.tool_units[u].resource_index = (@ + 1) % Len(resource_names)]

\* get_processing_time / the controller's processing_time, for steps with
\* duration_std = 0 and duration_min <= duration_mean
get_processing_time(step) == step.duration_mean

\* WaferAgent.log_processing_step
LogStep(S, w, unit_id, seq_id, start_time, end_time, resource_id) ==
    [S EXCEPT !.wafer_agents[w].processing_history =
        Append(@, [wafer_id |-> w, unit_id |-> unit_id, seq_id |-> seq_id,
                   resource_id |-> resource_id, start_time |-> start_time,
                   end_time |-> end_time])]

\* "agent.current_seq_id += 1; self.agents_exited += 1; self.send_agent(agent)"
Forward(B, u, w) ==
    LET S1 == [B.S EXCEPT !.wafer_agents[w].current_seq_id = @ + 1,
                          !.tool_units[u].agents_exited = @ + 1]
    IN IF output_port(u) # NoPart THEN HandOff(Both(S1, B.U), w, output_port(u))
       ELSE Both(S1, B.U)

\* variant: the sequence position is left where it was
SkipUnitKeepsSeq(B, u, w) ==
    LET B1 == Forward(B, u, w)
    IN Both([B1.S EXCEPT !.wafer_agents[w].current_seq_id = @ - 1], B1.U)

\* receive_agent, "if not current_step": the unit is skipped
SkipUnit(B, u, w) == Forward(B, u, w)

\* variant: a zero-duration step moves the round-robin index
ZeroDurationRotates(B, u, w, step) ==
    Forward(Both(AdvanceIndex(LogStep(B.S, w, u, step.seq_id, B.S.now, B.S.now,
                                      NotApplicable), u), B.U), u, w)

\* _process_wafer, "if step['duration_mean'] == 0": a record, no resource
ZeroDuration(B, u, w, step) ==
    Forward(Both(LogStep(B.S, w, u, step.seq_id, B.S.now, B.S.now, NotApplicable),
                 B.U), u, w)

\* SemiconductorToolUnit.receive_agent and _process_wafer up to "yield request"
UnitReceive ==
    /\ HeadIs("arrive") /\ HeadEv.p[1] \in ToolUnits
    /\ LET u == HeadEv.p[1]
           w == HeadEv.w
           S == Pop(State)
           S1 == [S EXCEPT !.tool_units[u].agents_entered = @ + 1]
           found == CurrentStep(u, S.wafer_agents[w].current_seq_id)
           k == CHOOSE i \in found : TRUE
           step == flow_sequence[k]
       IN CommitBoth(
            IF found = {} THEN SkipUnit(Both(S1, UnitState), u, w)
            ELSE IF step.duration_mean = 0
            THEN ZeroDuration(Both(S1, UnitState), u, w, step)
            ELSE Both(Request([AdvanceIndex(S1, u) EXCEPT
                                  !.wafer_agents[w].start_time = S.now],
                              [w |-> w, k |-> k, p |-> NextResource(S1, u)]),
                      UnitState))

\* the request event is processed: "yield self.env.timeout(processing_time)"
UnitGranted ==
    /\ HeadIs("req") /\ HeadEv.p[2] # 0
    /\ LET S == Pop(State)
           e == HeadEv
       IN Commit([S EXCEPT !.queue =
                    Schedule(@, S.now + get_processing_time(flow_sequence[e.k]), NORMAL,
                             Ev("processed", e.w, e.k, e.p))])
    /\ UNCHANGED <<poolVars, unitVars>>

\* the processing timeout fires: log the step, forward, leave the with block
UnitProcessed ==
    /\ HeadIs("processed") /\ HeadEv.p[2] # 0
    /\ LET e == HeadEv
           u == e.p[1]
           S == Pop(State)
           S1 == LogStep(S, e.w, u, flow_sequence[e.k].seq_id,
                         S.wafer_agents[e.w].start_time, S.now, e.p)
           B1 == Forward(Both(S1, UnitState), u, e.w)
       IN CommitBoth(Both(Release(B1.S, [w |-> e.w, k |-> e.k, p |-> e.p]), B1.U))

(* --------------------------- FlowController ---------------------------- *)
\* FlowController._process_wafer_flow from step i of flow_sequence to its
\* next yield, or to its end
RECURSIVE FlowLoop(_, _, _)
FlowLoop(B, w, i) ==
    IF i > Len(flow_sequence)
    THEN HandOff(Both(B.S, [B.U EXCEPT !.agents_exited = @ + 1]), w, SinkUnit)
    ELSE LET step == flow_sequence[i]
             unit_id == step.unit_id
         IN IF unit_id = "LOADPORT" THEN FlowLoop(B, w, i + 1)
            ELSE IF step.duration_mean = 0
            THEN FlowLoop(Both(LogStep(B.S, w, unit_id, step.seq_id, B.S.now, B.S.now,
                                       NotApplicable), B.U), w, i + 1)
            ELSE IF unit_id \in ToolUnits
            THEN Both(Request([B.S EXCEPT !.wafer_agents[w].start_time = B.S.now],
                              [w |-> w, k |-> i, p |-> <<unit_id, 0>>]), B.U)
            ELSE FlowLoop(B, w, i + 1)

\* FlowController.receive_agent
ControllerReceive ==
    /\ HeadIs("arrive") /\ HeadEv.p = ControllerUnit
    /\ CommitBoth(FlowLoop(Both(Pop(State), [UnitState EXCEPT !.agents_entered = @ + 1]),
                           HeadEv.w, 1))

ControllerGranted ==
    /\ HeadIs("req") /\ HeadEv.p[2] = 0
    /\ LET S == Pop(State)
           e == HeadEv
       IN Commit([S EXCEPT !.queue =
                    Schedule(@, S.now + get_processing_time(flow_sequence[e.k]), NORMAL,
                             Ev("processed", e.w, e.k, e.p))])
    /\ UNCHANGED <<poolVars, unitVars>>

\* the processing timeout fires: log the step, leave the with block, go on
ControllerProcessed ==
    /\ HeadIs("processed") /\ HeadEv.p[2] = 0
    /\ LET e == HeadEv
           S == Pop(State)
           S1 == LogStep(S, e.w, e.p[1], flow_sequence[e.k].seq_id,
                         S.wafer_agents[e.w].start_time, S.now, e.p)
           S2 == Release(S1, [w |-> e.w, k |-> e.k, p |-> e.p])
       IN CommitBoth(FlowLoop(Both(S2, UnitState), e.w, e.k + 1))

(* ---------------------------- the drivers ------------------------------ *)
\* _collect_wafer_logs: the histories of the agents the Sink has received
RECURSIVE CollectLogs(_, _)
CollectLogs(completed, agents) ==
    IF completed = <<>> THEN <<>>
    ELSE agents[Head(completed).a].processing_history
         \o CollectLogs(Tail(completed), agents)

\* env.run(until=duration) reaches its stop event: the environment is not
\* stepped any further, and run_simulation collects the logs
SimulationEnd ==
    /\ HeadIs("until")
    /\ Commit([Pop(State) EXCEPT !.queue = <<>>,
                                 !.wafer_logs = CollectLogs(completed_agents, wafer_agents),
                                 !.sim_pc = "collected"])
    /\ UNCHANGED <<poolVars, unitVars>>

\* steps with duration_std = 0 and duration_min = 0; seq_id counts from 0
\* or from 1
LotStepShapes ==
    [unit_id : {"LOADPORT"}, duration_mean : {0}]
    \cup [unit_id : Units, duration_mean : DurationMeans]

\* a configuration, a WaferSource, and run_simulation(duration) just called:
\* start_generation() has scheduled the source, env.run its stop event
InitLots(resources) ==
    /\ num_wafers = 0
    /\ status = NoStatus
    /\ WafersInit
    /\ unit_capability \in [Units -> 1..MaxInstances]
    /\ \E n \in 1..MaxSteps : \E f \in [1..n -> LotStepShapes] : \E base \in {0, 1} :
          unit_flow = [i \in 1..n |->
                          [unit_id |-> f[i].unit_id, seq_id |-> i - 1 + base,
                           duration_mean |-> f[i].duration_mean]]
    /\ max_lots \in 1..MaxLots
    /\ lot_size \in 1..MaxWafers
    /\ duration \in Horizons
    /\ lot_count = 0
    /\ wafer_agents = <<>>
    /\ tool_units = [u \in ToolUnits |->
                        [resource_index |-> 0, agents_entered |-> 0, agents_exited |-> 0]]
    /\ wafer_logs = <<>>
    /\ sim_pc = "running"
    /\ max_arrivals = 0
    /\ DefaultsExcept({"lots"})
    /\ AgentsInit
    /\ now = 0
    /\ queue = <<[time |-> 0, prio |-> URGENT, ev |-> Ev("lotsinit", 0, 0, NoPart)],
                 [time |-> duration, prio |-> URGENT, ev |-> Ev("until", 0, 0, NoPart)]>>
    /\ ResourcesInit(resources)

\* SemiconductorToolSimulator
InitToolSimulator ==
    /\ InitLots(AllParts)
    /\ unit = SourcePort

\* SemiconductorFlowSimulator
InitFlowSimulator ==
    /\ InitLots({<<u, 0>> : u \in Units})
    /\ unit = ControllerUnit

NextToolSimulator ==
    \/ WaferSourceStart
    \/ WaferSourceResume
    \/ UnitReceive
    \/ UnitGranted
    \/ UnitProcessed
    \/ ReleaseProcessed
    \/ SinkReceive
    \/ SimulationEnd

NextFlowSimulator ==
    \/ WaferSourceStart
    \/ WaferSourceResume
    \/ ControllerReceive
    \/ ControllerGranted
    \/ ControllerProcessed
    \/ ReleaseProcessed
    \/ SinkReceive
    \/ SimulationEnd

SpecToolSimulator == InitToolSimulator /\ [][NextToolSimulator]_vars
SpecFlowSimulator == InitFlowSimulator /\ [][NextFlowSimulator]_vars
SpecSimulators ==
    (InitToolSimulator \/ InitFlowSimulator)
        /\ [][NextToolSimulator \/ NextFlowSimulator]_vars

(* ------------------- tool_environment: lots and wafers ------------------ *)
\* MetalTool.__init__ with a status: a part whose status is 'down' gets no
\* resource and is left out of unit_to_parts
unit_to_parts(u) ==
    SelectSeq(UnitToParts(u), LAMBDA p : status[p] # "down")

\* sorted(unit_flow, key=lambda x: int(x["seq_id"])): no step is filtered out
env_sorted_flow == SortBySeq(unit_flow)

\* the process ends by a bare "return": end_time_tracker is not written
EarlyReturn(S, w) ==
    [S EXCEPT !.pc[w] = "done",
              !.queue = Schedule(@, S.now, NORMAL, Ev("end", w, 0, NoPart))]

\* "reqs = [res.request() for res in available_tools]"
EnvRequests(w, k) ==
    LET tools == unit_to_parts(env_sorted_flow[k].unit_id)
    IN [i \in 1..Len(tools) |-> [w |-> w, k |-> k, p |-> tools[i]]]

\* the requests and "yield env.any_of(reqs)"
EnvAcquire(S, w, k) ==
    [RequestAll(S, EnvRequests(w, k)) EXCEPT
        !.pc[w] = "acquire",
        !.idx[w] = k,
        !.condTriggered[w] = FALSE,
        !.wait_since[w] = S.now]

\* the for loop from position j on, up to its yield; after the last step
\* "end_time_tracker[wafer_id] = env.now"
EnvForLoop(S, w, j) ==
    IF j > Len(env_sorted_flow) THEN End(S, w)
    ELSE IF unit_to_parts(env_sorted_flow[j].unit_id) = <<>> THEN EarlyReturn(S, w)
    ELSE EnvAcquire(S, w, j)

\* "req = list(result.keys())[0]": the first request of the list that is in
\* the result of the any_of
FirstKey(S, w, k) ==
    LET reqs == EnvRequests(w, k)
        hit == {i \in 1..Len(reqs) : ReqEv(reqs[i]) \in S.processed}
    IN reqs[CHOOSE i \in hit : \A j \in hit : i <= j]

\* "for r in reqs: if r != req: r.cancel()" (cancel leaves a triggered
\* request alone), then "yield env.timeout(proc_time)"
EnvAcquired(S, w, k, proc_time) ==
    LET req == FirstKey(S, w, k)
        S1 == CancelAll(S, EnvRequests(w, k))
    IN [S1 EXCEPT !.current[w] = req,
                  !.adopted[w] = Append(@, [k |-> k, p |-> req.p, t |-> S.now]),
                  !.pc[w] = "process",
                  !.queue = Schedule(@, S.now + proc_time, NORMAL,
                                     Ev("delay", w, k, NoPart))]

\* "while len(wafer_end_times) < num_wafers: yield env.timeout(1)", and the
\* return of lot_process after the loop
EnvLotLoop(S) ==
    IF Cardinality({w \in Wafers : S.end_time_tracker[w] # NoTime}) < num_wafers
    THEN [S EXCEPT !.lot_pc = "polling",
                   !.queue = Schedule(@, S.now + 1, NORMAL, Ev("poll", 0, 0, NoPart))]
    ELSE [S EXCEPT !.lot_pc = "done",
                   !.queue = Schedule(@, S.now, NORMAL, Ev("lotend", 0, 0, NoPart))]

\* lot_process from its start to its first yield
EnvLotStart ==
    /\ HeadIs("lotinit")
    /\ LET S == Pop(State)
       IN Commit(EnvLotLoop([S EXCEPT !.queue = StartProcesses(@, S.now, 1, num_wafers)]))
    /\ UNCHANGED <<poolVars, unitVars>>

\* the one-unit timeout of the lot ends: the while condition is tested again
\* (the run is followed up to time MaxTime)
EnvLotPoll ==
    /\ HeadIs("poll")
    /\ Head(queue).time <= MaxTime
    /\ Commit(EnvLotLoop(Pop(State)))
    /\ UNCHANGED <<poolVars, unitVars>>

\* env.run(until=incoming_lot_process): the lot's process event ends the run
EnvRunEnd ==
    /\ HeadIs("lotend")
    /\ Commit([Pop(State) EXCEPT !.queue = <<>>, !.lot_pc = "returned"])
    /\ UNCHANGED <<poolVars, unitVars>>

\* wafer_process (no start_at_step) from its start to its first yield
EnvWaferStart ==
    /\ HeadIs("init")
    /\ LET S == Pop(State)
           w == HeadEv.w
       IN Commit(EnvForLoop([S EXCEPT !.start_time_tracker[w] = S.now], w, 1))
    /\ UNCHANGED <<poolVars, unitVars>>

\* the any_of is processed: the wafer goes on with the request it takes;
\* proc_time is recipe_time, or a normal variate cut off at 0
EnvStepAcquired ==
    /\ HeadIs("cond")
    /\ LET w == HeadEv.w
           k == HeadEv.k
           step == env_sorted_flow[k]
       IN \E proc_time \in (IF step.recipe THEN {step.recipe_time} ELSE ProcTimes) :
             Commit(EnvAcquired(Pop(State), w, k, proc_time))
    /\ UNCHANGED <<poolVars, unitVars>>

\* the processing timeout ends: "res.release(req)", then the next step
EnvStepDone ==
    /\ HeadIs("delay")
    /\ LET S == Pop(State)
           w == HeadEv.w
       IN Commit(EnvForLoop(Release(S, S.current[w]), w, HeadEv.k + 1))
    /\ UNCHANGED <<poolVars, unitVars>>

\* the process event of a wafer is processed: nothing waits for it
EnvWaferEnded ==
    /\ HeadIs("end")
    /\ Commit([Pop(State) EXCEPT !.ended = @ \cup {HeadEv.w}])
    /\ UNCHANGED <<poolVars, unitVars>>

EnvStepShapes ==
    [unit_id : Units, recipe : {TRUE}, recipe_time : ProcTimes]
    \cup [unit_id : Units, recipe : {FALSE}, recipe_time : {0}]

\* a MetalTool with a status of 'available' and 'down' parts (no part is
\* 'occupied', so initialize_factory_state starts no process), one lot,
\* env.run(until=the lot) just called
InitEnv ==
    /\ num_wafers \in 1..MaxWafers
    /\ unit_capability \in [Units -> 0..MaxInstances]
    /\ status \in [AllParts -> {"available", "down"}]
    /\ \A p \in AllParts : status[p] = "down" => p[2] <= unit_capability[p[1]]
    /\ \E n \in 1..MaxSteps : \E f \in [1..n -> EnvStepShapes] :
          unit_flow = [i \in 1..n |->
                          [unit_id |-> f[i].unit_id, seq_id |-> i,
                           recipe |-> f[i].recipe, recipe_time |-> f[i].recipe_time]]
    /\ max_arrivals = 0
    /\ unit = NoPart
    /\ DefaultsExcept({})
    /\ KernelInit("lotinit", AllParts)
    /\ WafersInit
    /\ AgentsInit

NextEnv ==
    \/ EnvLotStart
    \/ EnvWaferStart
    \/ RequestProcessed
    \/ EnvStepAcquired
    \/ EnvStepDone
    \/ ReleaseProcessed
    \/ EnvWaferEnded
    \/ EnvLotPoll
    \/ EnvRunEnd

SpecEnv == InitEnv /\ [][NextEnv]_vars

(* -------------- semiconductor_simulator: MetalToolSimulator ------------- *)
\* the four resources of MetalToolSimulator.__init__; unit_capability holds
\* num_loadports, num_processing_slots, num_degas_chambers and num_chambers
Loadports == <<"loadports", 0>>
ProcessingSlots == <<"processing_slots", 0>>
DegasChambers == <<"degas_chambers", 0>>
Chambers == <<"chambers", 0>>
MetalResources == {Loadports, ProcessingSlots, DegasChambers, Chambers}

\* a process: lot l is <<l, 0>>, its wafer i is <<l, i>>, the j-th initial
\* occupant is <<0, j>>; its request and its events carry the pair in the
\* fields w and k
MetalReq(w, p) == [w |-> w[1], k |-> w[2] + 1, p |-> p]
HeadProc == <<HeadEv.w, HeadEv.k - 1>>

Lots == 1..Len(metal_lots)
WaferCount(l) == metal_lots[l].wafers_processing + metal_lots[l].wafers_waiting

\* a wafer that is already 'processing' runs process_wafer alone, the others
\* run process_wafer_full_path
Direct(w) == w[2] <= metal_lots[w[1]].wafers_processing

MetalEvent(type, w, p) == [time |-> 0, prio |-> URGENT, ev |-> Ev(type, w[1], w[2] + 1, p)]

\* run_simulation: the env.process calls, in order
InitialProcesses ==
    [j \in 1..occupied_process_chambers |-> MetalEvent("occupy", <<0, j>>, Chambers)]
    \o [j \in 1..occupied_degas_chambers |->
           MetalEvent("occupy", <<0, occupied_process_chambers + j>>, DegasChambers)]
    \o [l \in Lots |-> MetalEvent("lotproc", <<l, 0>>, NoPart)]

SetLot(S, l, where) == [S EXCEPT !.lot_proc[l] = where]
SetWafer(S, w, where) == [S EXCEPT !.wafer_proc[w[1]][w[2]] = where]
After(S, delay, prio, type, w) ==
    [S EXCEPT !.queue = Schedule(@, S.now + delay, prio, Ev(type, w[1], w[2] + 1, NoPart))]

\* _occupy_resource_on_init: "yield resource.request()"
OccupyStart ==
    /\ HeadIs("occupy")
    /\ Commit(Request(Pop(State), MetalReq(HeadProc, HeadEv.p)))
    /\ UNCHANGED <<poolVars, unitVars>>

\* the occupant is granted the resource and its process ends without a release
OccupyGranted ==
    /\ HeadIs("req") /\ HeadProc[1] = 0
    /\ Commit(After(Pop(State), 0, NORMAL, "procend", HeadProc))
    /\ UNCHANGED <<poolVars, unitVars>>

\* process_wip_lot / process_lot up to "yield request" for a loadport
LotArrives ==
    /\ HeadIs("lotproc")
    /\ LET w == HeadProc
       IN Commit(SetLot(Request(Pop(State), MetalReq(w, Loadports)), w[1], "loadport"))
    /\ UNCHANGED <<poolVars, unitVars>>

\* track in: the lot has a loadport and requests a processing slot
LotTrackIn ==
    /\ HeadIs("req") /\ HeadEv.p = Loadports
    /\ LET w == HeadProc
       IN Commit(SetLot(Request(Pop(State), MetalReq(w, ProcessingSlots)), w[1], "slot"))
    /\ UNCHANGED <<poolVars, unitVars>>

\* env.process(...) for the wafers i..n of lot l
RECURSIVE StartWafers(_, _, _, _)
StartWafers(S, l, i, n) ==
    IF i > n THEN S
    ELSE StartWafers(After(S, 0, URGENT,
                           IF Direct(<<l, i>>) THEN "process" ELSE "fullpath", <<l, i>>),
                     l, i + 1, n)

\* the lot has a processing slot: it starts its wafer processes and yields
\* all_of, which is triggered at once for an empty list
LotStartsWafers ==
    /\ HeadIs("req") /\ HeadEv.p = ProcessingSlots
    /\ LET w == HeadProc
           S == StartWafers(Pop(State), w[1], 1, WaferCount(w[1]))
       IN Commit(SetLot(IF WaferCount(w[1]) = 0 THEN After(S, 0, NORMAL, "allof", w)
                        ELSE S,
                        w[1], "wafers"))
    /\ UNCHANGED <<poolVars, unitVars>>

\* process_wafer_full_path: "yield self.env.process(self.degas_wafer(...))"
FullPathStart ==
    /\ HeadIs("fullpath")
    /\ Commit(SetWafer(After(Pop(State), 0, URGENT, "degas", HeadProc), HeadProc, "path"))
    /\ UNCHANGED <<poolVars, unitVars>>

\* degas_wafer up to "yield request"
DegasStart ==
    /\ HeadIs("degas")
    /\ Commit(SetWafer(Request(Pop(State), MetalReq(HeadProc, DegasChambers)),
                       HeadProc, "degas_wait"))
    /\ UNCHANGED <<poolVars, unitVars>>

\* the wafer has a degas chamber: "yield self.env.timeout(degas_duration)"
DegasGranted ==
    /\ HeadIs("req") /\ HeadEv.p = DegasChambers /\ HeadProc[1] # 0
    /\ \E degas_duration \in ChamberTimes :
          Commit(SetWafer(After(Pop(State), degas_duration, NORMAL, "degassed", HeadProc),
                          HeadProc, "degas"))
    /\ UNCHANGED <<poolVars, unitVars>>

\* the degas ends: the with block releases the chamber, degas_wafer ends
DegasDone ==
    /\ HeadIs("degassed")
    /\ LET w == HeadProc
       IN Commit(SetWafer(After(Release(Pop(State), MetalReq(w, DegasChambers)),
                                0, NORMAL, "degasend", w),
                          w, "degassed"))
    /\ UNCHANGED <<poolVars, unitVars>>

\* process_wafer_full_path: "yield self.env.process(self.process_wafer(...))"
FullPathResume ==
    /\ HeadIs("degasend")
    /\ Commit(After(Pop(State), 0, URGENT, "process", HeadProc))
    /\ UNCHANGED <<poolVars, unitVars>>

\* process_wafer up to "yield request"
ProcessStart ==
    /\ HeadIs("process")
    /\ Commit(SetWafer(Request(Pop(State), MetalReq(HeadProc, Chambers)),
                       HeadProc, "chamber_wait"))
    /\ UNCHANGED <<poolVars, unitVars>>

\* the wafer has a chamber: "yield self.env.timeout(process_duration)"
ProcessGranted ==
    /\ HeadIs("req") /\ HeadEv.p = Chambers /\ HeadProc[1] # 0
    /\ \E process_duration \in ChamberTimes :
          Commit(SetWafer(After(Pop(State), process_duration, NORMAL, "processed", HeadProc),
                          HeadProc, "chamber"))
    /\ UNCHANGED <<poolVars, unitVars>>

\* variant: the chamber is kept after the process
ProcessDoneKeepsChamber ==
    /\ HeadIs("processed")
    /\ LET w == HeadProc
       IN Commit(SetWafer(After(Pop(State), 0, NORMAL,
                                IF Direct(w) THEN "waferend" ELSE "processend", w),
                          w, "processed"))
    /\ UNCHANGED <<poolVars, unitVars>>

\* the process ends: the with block releases the chamber, process_wafer ends
ProcessDone ==
    /\ HeadIs("processed")
    /\ LET w == HeadProc
       IN Commit(SetWafer(After(Release(Pop(State), MetalReq(w, Chambers)),
                                0, NORMAL,
                                IF Direct(w) THEN "waferend" ELSE "processend", w),
                          w, "processed"))
    /\ UNCHANGED <<poolVars, unitVars>>

\* process_wafer_full_path resumes after process_wafer and ends
FullPathEnd ==
    /\ HeadIs("processend")
    /\ Commit(After(Pop(State), 0, NORMAL, "waferend", HeadProc))
    /\ UNCHANGED <<poolVars, unitVars>>

\* the process event of a wafer is processed: the all_of of its lot is
\* triggered when it was the last one
WaferProcessEnded ==
    /\ HeadIs("waferend")
    /\ LET w == HeadProc
           S == SetWafer(Pop(State), w, "done")
       IN Commit(IF \A i \in 1..WaferCount(w[1]) : S.wafer_proc[w[1]][i] = "done"
                 THEN After(S, 0, NORMAL, "allof", <<w[1], 0>>)
                 ELSE S)
    /\ UNCHANGED <<poolVars, unitVars>>

\* the lot resumes after all_of: the inner with block releases the processing
\* slot, the outer one the loadport, and the lot process ends
LotFinished ==
    /\ HeadIs("allof")
    /\ LET w == HeadProc
           S == Release(Release(Pop(State), MetalReq(w, ProcessingSlots)),
                        MetalReq(w, Loadports))
       IN Commit(SetLot(After(S, 0, NORMAL, "procend", w), w[1], "done"))
    /\ UNCHANGED <<poolVars, unitVars>>

\* the process event of a lot or of an occupant: nothing waits for it
ProcessEventDone ==
    /\ HeadIs("procend")
    /\ Commit(Pop(State))
    /\ UNCHANGED <<poolVars, unitVars>>

WipShapes == [wip : {TRUE}, wafers_processing : 0..1, wafers_waiting : 0..1]
NewLotShapes == [wip : {FALSE}, wafers_processing : {0}, wafers_waiting : 1..MaxWafers]

\* run_simulation: a simulator, the initially occupied chambers, the WIP
\* lots and the new lot, env.run() just called
InitMetal ==
    /\ unit_capability \in [{"loadports", "processing_slots", "degas_chambers", "chambers"}
                               -> 1..MaxCapacity]
    /\ occupied_process_chambers \in 0..unit_capability["chambers"]
    /\ occupied_degas_chambers \in 0..unit_capability["degas_chambers"]
    /\ \E n \in 0..MaxWip : \E wip \in [1..n -> WipShapes] : \E new \in NewLotShapes :
          metal_lots = wip \o <<new>>
    /\ lot_proc = [l \in Lots |-> "init"]
    /\ wafer_proc = [l \in Lots |-> [i \in 1..WaferCount(l) |-> "none"]]
    /\ num_wafers = 0
    /\ status = NoStatus
    /\ unit_flow = <<>>
    /\ max_arrivals = 0
    /\ unit = NoPart
    /\ DefaultsExcept({"metal"})
    /\ WafersInit
    /\ AgentsInit
    /\ now = 0
    /\ queue = InitialProcesses
    /\ ResourcesInit(MetalResources)

NextMetal ==
    \/ OccupyStart
    \/ OccupyGranted
    \/ LotArrives
    \/ LotTrackIn
    \/ LotStartsWafers
    \/ FullPathStart
    \/ DegasStart
    \/ DegasGranted
    \/ DegasDone
    \/ FullPathResume
    \/ ProcessStart
    \/ ProcessGranted
    \/ ProcessDone
    \/ FullPathEnd
    \/ WaferProcessEnded
    \/ LotFinished
    \/ ReleaseProcessed
    \/ ProcessEventDone

SpecMetal == InitMetal /\ [][NextMetal]_vars

\* Environment.step: every action pops the head of the event queue and sets
\* the clock to its time
Step == queue # <<>> /\ now' = Head(queue).time

\* Environment.run keeps stepping while the event queue is not empty: weak
\* fairness of Step, written out with ENABLED <<Step>>_vars = (queue # <<>>)
RunToEnd == []<>(queue = <<>>) \/ []<><<Step>>_vars
FairTool == SpecTool /\ RunToEnd
FairMetal == SpecMetal /\ RunToEnd

(* --------------------------- observations ------------------------------ *)
Resources == DOMAIN users
InUsers(id) == \E i \in 1..Len(users[id.p]) : users[id.p][i] = id
InPutQueue(id) == \E i \in 1..Len(put_queue[id.p]) : put_queue[id.p][i] = id

\* the requests of wafer w that are holders / pending on some resource
HeldBy(w) == {id \in triggered : id.w = w /\ InUsers(id)}
PendingOf(w) ==
    {id \in UNION {{put_queue[r][i] : i \in 1..Len(put_queue[r])} : r \in Resources} :
        id.w = w}
RequestSet(w, k) == {Requests(w, k)[i] : i \in 1..Len(Requests(w, k))}
AdoptedSteps(w) == {adopted[w][i].k : i \in 1..Len(adopted[w])}
GrantsOf(w) == {id \in triggered : id.w = w}
ReleasesOf(w) == {i \in 1..Len(released) : released[i].w = w}
RecordsOf(w) ==
    LET Mine(r) == r.WaferID = w
    IN SelectSeq(wafer_log, Mine)

(* ------------------------------ claims --------------------------------- *)

C2_AtMostTwoGrants == \A w \in Wafers : Cardinality(HeldBy(w)) <= 2

\* C3: once a wafer's process has ended the wafer holds no resource and has
\* no pending request.
C3_NothingHeldAtEnd ==
    \A w \in Wafers : pc[w] = "done" => HeldBy(w) = {} /\ PendingOf(w) = {}

\* C4: after the first acquisition is resolved by a grant, exactly one of the
\* requests issued for the first station is a holder (the adopted one) and
\* none of the others is pending or granted.
C4_ExactlyOneFirstInstance ==
    \A w \in Wafers :
        (pc[w] = "process" /\ Len(adopted[w]) = 1) =>
            /\ {id \in RequestSet(w, idx[w]) : InUsers(id)} = {current[w]}
            /\ \A id \in RequestSet(w, idx[w]) : ~InPutQueue(id)

\* C5: from its first acquisition until its process ends a wafer holds its
\* current grant at every instant, and it has released exactly the grants it
\* adopted before the current one (a release happens only when the next
\* grant is adopted).
C5_ContinuousOccupancy ==
    \A w \in Wafers :
        (adopted[w] # <<>> /\ pc[w] # "done") =>
            /\ current[w] # NoReq
            /\ InUsers(current[w])
            /\ current[w].k = adopted[w][Len(adopted[w])].k
            /\ Cardinality(ReleasesOf(w)) = Len(adopted[w]) - 1

\* a wafer that moved on to a second resource and released the first
C5_Witness ==
    \E w \in Wafers :
        /\ pc[w] = "process"
        /\ Len(adopted[w]) >= 2
        /\ ReleasesOf(w) # {}

\* C6: once the timeout branch of an acquisition is taken, none of the
\* requests issued for that acquisition is pending or granted on any resource.
C6_TimedOutRequestsWithdrawn ==
    \A w \in Wafers :
        \A id \in HeldBy(w) \cup PendingOf(w) : id.k \notin timedOut[w]

C8_NoDoubleRelease ==
    /\ \A w \in Wafers : Cardinality(ReleasesOf(w)) <= Cardinality(GrantsOf(w))
    /\ \A i \in 1..Len(released) : released[i] \in triggered
    /\ \A i, j \in 1..Len(released) : i # j => released[i] # released[j]

\* a wafer ended after two acquisition timeouts and one release
C8_Witness ==
    \E w \in Wafers :
        /\ pc[w] = "done"
        /\ Cardinality(timedOut[w]) >= 2
        /\ Cardinality(ReleasesOf(w)) = 1

\* C9: the i-th record of a wafer starts when its i-th resource was adopted,
\* names that resource, and finishes when the next one was adopted; the
\* records of a wafer are in time order and contiguous.
C9_RecordsContiguous ==
    \A w \in Wafers :
        LET L == RecordsOf(w)
        IN /\ Len(L) <= Len(adopted[w])
           /\ \A i \in 1..Len(L) :
                 /\ L[i].Start = adopted[w][i].t
                 /\ L[i].PartID = adopted[w][i].p
                 /\ L[i].Start <= L[i].Finish
                 /\ i < Len(adopted[w]) => L[i].Finish = adopted[w][i + 1].t
           /\ \A i \in 1..(Len(L) - 1) : L[i].Finish = L[i + 1].Start

\* a wafer with two records of non-zero length
C9_Witness ==
    \E w \in Wafers :
        /\ Len(RecordsOf(w)) >= 2
        /\ RecordsOf(w)[1].Start < RecordsOf(w)[1].Finish
        /\ RecordsOf(w)[2].Start < RecordsOf(w)[2].Finish

\* C10: no acquisition wait lasts longer than AcquireTimeout, and eventually
\* every wafer has an entry in end_time_tracker and lot_process has returned.
C10_Terminates ==
    /\ [](\A w \in Wafers : pc[w] = "acquire" => now - wait_since[w] <= AcquireTimeout)
    /\ <>(lot_pc = "done" /\ \A w \in Wafers : end_time_tracker[w] # NoTime)

\* the lot has completed although two wafers ran into acquisition timeouts
C10_Witness ==
    /\ lot_pc = "done"
    /\ \E w1, w2 \in Wafers :
          w1 # w2 /\ timedOut[w1] # {} /\ timedOut[w2] # {}

(* ------------------- observations of the flow units -------------------- *)
\* position of a request in the order of the request() calls / of the grants
\* (0: not there)
ReqPos(id) ==
    LET hit == {i \in 1..Len(request_log) : request_log[i].id = id}
    IN IF hit = {} THEN 0 ELSE CHOOSE i \in hit : TRUE
GrantPos(id) ==
    LET hit == {i \in 1..Len(grant_log) : grant_log[i].id = id}
    IN IF hit = {} THEN 0 ELSE CHOOSE i \in hit : TRUE
SeqToSet(q) == {q[i] : i \in 1..Len(q)}

\* C11: in a ResourcePool without priority_func, when request A was issued
\* before request B and both had to wait, B is not granted unless A has been
\* granted before it.
C11_FifoGrants ==
    (unit = PoolRes /\ ~priority_func) =>
        \A i, j \in 1..Len(request_log) :
            (i < j /\ request_log[i].waited /\ request_log[j].waited
                   /\ GrantPos(request_log[j].id) # 0) =>
                /\ GrantPos(request_log[i].id) # 0
                /\ GrantPos(request_log[i].id) < GrantPos(request_log[j].id)

\* two agents had to wait for the pool and both have been granted since
C11_Witness ==
    /\ unit = PoolRes /\ ~priority_func
    /\ \E i, j \in 1..Len(request_log) :
          /\ i < j
          /\ request_log[i].waited /\ request_log[j].waited
          /\ GrantPos(request_log[i].id) # 0
          /\ GrantPos(request_log[j].id) # 0

\* priority value and arrival position of a logged request
PriorityOf(id) == request_log[ReqPos(id)].priority

\* C12: in a ResourcePool with priority_func, whenever a request is granted
\* while others are left waiting, every request left waiting has a greater
\* priority value, or the same value and a later arrival: a lower value
\* overtakes an earlier arrival of a higher value, and equal values are
\* served in arrival order.
C12_PriorityGrants ==
    (unit = PoolRes /\ priority_func) =>
        \A g \in 1..Len(grant_log) :
            \A y \in SeqToSet(grant_log[g].behind) :
                LET x == grant_log[g].id
                IN \/ PriorityOf(x) < PriorityOf(y)
                   \/ (PriorityOf(x) = PriorityOf(y) /\ ReqPos(x) < ReqPos(y))

\* a later arrival with a lower priority value was granted ahead of an
\* earlier arrival that is still waiting
C12_Witness ==
    /\ unit = PoolRes /\ priority_func
    /\ \E g \in 1..Len(grant_log) : \E y \in SeqToSet(grant_log[g].behind) :
          /\ ReqPos(y) < ReqPos(grant_log[g].id)
          /\ PriorityOf(grant_log[g].id) < PriorityOf(y)

\* the scenario of the capacity-2 station, up to agent a: fixed service
\* time 5, no setup, no priority, agents 1..a received at t = 0, 1, ...
StationScenario(a) ==
    /\ unit \in {PoolRes, ServiceRes}
    /\ pool_capacity = 2 /\ service_time = 5 /\ setup_time = 0
    /\ ~priority_func
    /\ queue_capacity >= 1
    /\ \A b \in 1..a : arrived[b] = b - 1
ExpectedStart == <<0, 1, 5>>
ExpectedExit == <<5, 6, 10>>
SentTimes(a) == {sent[i].t : i \in {j \in 1..Len(sent) : sent[j].a = a}}

\* C13: at a station (ResourcePool or Service) of capacity 2 with service
\* time 5 and no priority, agents received at t = 0, 1, 2 start service at
\* t = 0, 1, 5 and leave (are counted and handed on) at t = 5, 6, 10, never
\* earlier or later; the third agent's grant is made at the time the first
\* agent releases.
C13_CapacityTwoSchedule ==
    \A a \in Agents \cap 1..3 :
        StationScenario(a) =>
            /\ started[a] # NoTime => started[a] = ExpectedStart[a]
            /\ now > ExpectedStart[a] => started[a] # NoTime
            /\ exited[a] # NoTime => exited[a] = ExpectedExit[a]
            /\ now > ExpectedExit[a] => exited[a] # NoTime
            /\ SentTimes(a) \subseteq {ExpectedExit[a]}
            /\ (connected /\ exited[a] # NoTime) => SentTimes(a) # {}
            /\ (a = 3 /\ GrantPos(AgentReq(3)) # 0) =>
                   /\ grant_log[GrantPos(AgentReq(3))].t = ExpectedStart[3]
                   /\ exited[1] = ExpectedStart[3]

\* the three agents of the scenario have been handed on by a Service
C13_Witness ==
    /\ unit = ServiceRes
    /\ max_arrivals = 3
    /\ StationScenario(3)
    /\ connected
    /\ \A a \in 1..3 : exited[a] = ExpectedExit[a] /\ SentTimes(a) = {ExpectedExit[a]}

\* the agents a unit holds: buffered, in its delay, awaiting a batch, or
\* waiting for / using its resource
Held ==
    Len(buffer) + Len(waiting_agents)
    + (IF unit = DelayUnit THEN Len(processing_agents) ELSE 0)
    + (IF unit \in Resources THEN Len(users[unit]) + Len(put_queue[unit]) ELSE 0)

\* C14: in every flow unit, at every instant, agents_entered equals
\* agents_exited plus the agents the unit holds plus the arrivals it has
\* rejected at capacity.
C14_Conservation ==
    agents_entered = agents_exited + Held + Len(dropped)

\* the next event is an arrival at the Queue, whose buffer is at capacity
QueueFullArrival ==
    /\ HeadIs("arrive") /\ HeadEv.p = QueueUnit
    /\ Len(buffer) >= capacity

\* C15: an arrival at a Queue whose buffer holds capacity agents leaves the
\* buffer and agents_exited unchanged, hands nothing on, and adds one to the
\* rejection counter.
C15_QueueRejectionCounted ==
    [][QueueFullArrival =>
          /\ buffer' = buffer
          /\ agents_exited' = agents_exited
          /\ sent' = sent
          /\ rejected_agents' = rejected_agents + 1]_vars

\* the agents a Service has accepted that are not yet in service: in its
\* queue or waiting for its resource
WaitingForService == Len(buffer) + Len(put_queue[ServiceRes])

\* C16: in a Service with queue_capacity Q >= 1 the number of agents
\* accepted but not yet in service never exceeds Q.
C16_ServiceWaitingBounded ==
    (unit = ServiceRes /\ queue_capacity >= 1) => WaitingForService <= queue_capacity

RECURSIVE SumOver(_, _, _)
SumOver(S, from, to) ==
    IF S = {} THEN 0
    ELSE LET a == CHOOSE a \in S : TRUE
         IN (to[a] - from[a]) + SumOver(S \ {a}, from, to)
StartedAgents == {a \in Agents : started[a] # NoTime}
ExitedAgents == {a \in Agents : exited[a] # NoTime}

\* C17: in a Service, total_queue_time is the sum over the agents that have
\* started service of (grant time - arrival time), and total_service_time
\* is the sum over the completed agents of (completion time - service start
\* time).
C17_ServiceAccumulators ==
    unit = ServiceRes =>
        /\ total_queue_time = SumOver(StartedAgents, arrived, started)
        /\ total_service_time = SumOver(ExitedAgents, started, exited)

SentCount(a) == Cardinality({i \in 1..Len(sent) : sent[i].a = a})

\* C18: in a Delay with fixed delay_time d and capacity c, processing_agents
\* never holds more than c agents, an accepted agent leaves exactly d after
\* it was received (not earlier, not later, handed on once at that time when
\* there is an output), and a dropped arrival is never held or handed on.
C18_DelayFixedTime ==
    unit = DelayUnit =>
        /\ Len(processing_agents) <= capacity
        /\ \A a \in Agents :
              /\ exited[a] # NoTime => exited[a] = arrived[a] + delay_time
              /\ (arrived[a] # NoTime /\ now > arrived[a] + delay_time) =>
                     exited[a] # NoTime
              /\ SentTimes(a) \subseteq {arrived[a] + delay_time}
              /\ SentCount(a) = (IF connected /\ exited[a] # NoTime THEN 1 ELSE 0)
        /\ \A a \in SeqToSet(dropped) :
              /\ a \notin SeqToSet(processing_agents)
              /\ exited[a] = NoTime
              /\ SentCount(a) = 0

\* one agent was handed on after a non-zero delay and another was dropped
\* at capacity
C18_Witness ==
    /\ unit = DelayUnit /\ connected /\ delay_time > 0 /\ capacity >= 1
    /\ dropped # <<>>
    /\ \E a \in Agents : exited[a] = arrived[a] + delay_time /\ SentCount(a) = 1

Deliveries(a) == {i \in 1..Len(completed_agents) : completed_agents[i].a = a}
RoutedTo(a) == IF attributes[a].cond THEN TrueSink ELSE FalseSink

\* C19: a SelectOutput with both outputs connected hands every received
\* agent on exactly once, at the time it was received, to the true output
\* if condition_func holds for the agent and to the false output otherwise;
\* the agent is delivered to that one node only, at that same time.
C19_SelectRoutesOnce ==
    (unit = SelectUnit /\ connected) =>
        \A a \in Agents :
            /\ SentCount(a) = (IF arrived[a] # NoTime THEN 1 ELSE 0)
            /\ \A i \in 1..Len(sent) :
                  sent[i].a = a => (sent[i].port = RoutedTo(a) /\ sent[i].t = arrived[a])
            /\ Cardinality(Deliveries(a)) <= 1
            /\ \A i \in Deliveries(a) :
                  /\ completed_agents[i].port = RoutedTo(a)
                  /\ completed_agents[i].t = arrived[a]
            /\ (arrived[a] # NoTime /\ now > arrived[a]) => Deliveries(a) # {}

\* one agent has reached the true output and another the false output
C19_Witness ==
    /\ unit = SelectUnit /\ connected
    /\ \E i, j \in 1..Len(completed_agents) :
          /\ completed_agents[i].port = TrueSink
          /\ completed_agents[j].port = FalseSink
          /\ attributes[completed_agents[i].a].cond
          /\ ~attributes[completed_agents[j].a].cond

\* the batch the i-th hand-off belongs to, for batches of n agents
BatchOf(i, n) == (i + n - 1) \div n

\* C20: a Combine without timeout hands agents on only in batches of
\* exactly required_agents agents: the agents that have left are batch_count
\* full batches, in arrival order with nobody passed over, the members of a
\* batch leave at the same simulated time, and the agents still waiting are
\* fewer than required_agents and have not been handed on.
C20_CombineFullBatches ==
    (unit = CombineUnit /\ required_agents >= 1 /\ timeout = 0) =>
        /\ agents_exited = required_agents * batch_count
        /\ connected => Len(sent) = agents_exited
        /\ \A i \in 1..Len(sent) :
              /\ sent[i].a = i
              /\ sent[i].t = exited[i]
        /\ \A a, b \in Agents :
              (exited[a] # NoTime /\ exited[b] # NoTime
                 /\ BatchOf(a, required_agents) = BatchOf(b, required_agents)) =>
                  exited[a] = exited[b]
        /\ \A a, b \in Agents :
              (a < b /\ exited[b] # NoTime) =>
                  (exited[a] # NoTime /\ arrived[a] <= arrived[b])
        /\ Len(waiting_agents) < required_agents
        /\ \A a \in SeqToSet(waiting_agents) : exited[a] = NoTime /\ SentCount(a) = 0

\* a batch of two agents that arrived at different times has left at one
\* time while a third agent waits
C20_Witness ==
    /\ unit = CombineUnit /\ connected /\ required_agents = 2 /\ timeout = 0
    /\ batch_count = 1
    /\ Len(sent) = 2
    /\ arrived[1] < arrived[2]
    /\ sent[1].t = sent[2].t
    /\ waiting_agents = <<3>>

(* ------------------------- Combine with a timeout ---------------------- *)
\* the batches that left with fewer than required_agents agents
PartialBatches == {i \in 1..Len(batches) : Len(batches[i].members) < required_agents}

\* C21: with a timeout T, no agent leaves a Combine in a partial batch
\* earlier than T time units after its own arrival, whatever the arrivals
\* were and whether or not an earlier batch completed in between.
C21_PartialBatchAfterTimeout ==
    (unit = CombineUnit /\ timeout # 0) =>
        \A i \in PartialBatches :
            \A a \in SeqToSet(batches[i].members) :
                batches[i].t >= arrived[a] + timeout

(* ------------------------------- Source -------------------------------- *)
\* C22: a Source never generates more agents than its configured maximum,
\* for every non-negative maximum, and every generated agent is handed to
\* the downstream unit at its creation time.
C22_SourceBounded ==
    unit = SinkUnit =>
        /\ generated_count <= max_arrivals
        /\ \A i \in 1..Len(completed_agents) :
              completed_agents[i].t = attributes[completed_agents[i].a].creation_time

(* ---------------------- SemiconductorToolSimulator --------------------- *)
\* the non-LOADPORT steps in ascending seq_id order
RECURSIVE StationSteps(_)
StationSteps(f) ==
    IF f = <<>> THEN <<>>
    ELSE IF Head(f).unit_id = "LOADPORT" THEN StationSteps(Tail(f))
         ELSE <<Head(f)>> \o StationSteps(Tail(f))

HistoryOf(w) == wafer_agents[w].processing_history

\* C23: in the tool simulator a wafer that has reached the Sink has exactly
\* one processing record for each non-LOADPORT step, made at that step's
\* station, in ascending seq_id order, whatever the flow-step list is
\* (station ids may occur at several sequence positions).
C23_OneRecordPerStepInOrder ==
    unit # ControllerUnit =>
        \A i \in 1..Len(completed_agents) :
            LET h == HistoryOf(completed_agents[i].a)
                steps == StationSteps(flow_sequence)
            IN /\ Len(h) = Len(steps)
               /\ \A j \in 1..Len(h) :
                     /\ h[j].seq_id = steps[j].seq_id
                     /\ h[j].unit_id = steps[j].unit_id
               /\ \A j \in 1..(Len(h) - 1) : h[j].end_time <= h[j + 1].start_time

\* the wafers created so far
WaferIds == 1..Len(wafer_agents)

\* the head event hands wafer w to tool unit u
ArrivesAt(u, w) ==
    /\ HeadIs("arrive")
    /\ HeadEv.p = <<u, 0>>
    /\ HeadEv.w = w

\* everything about the wafers other than w, and the units other than u,
\* stays as it was
OthersUntouched(u, w) ==
    /\ \A v \in WaferIds \ {w} : wafer_agents'[v] = wafer_agents[v]
    /\ \A x \in ToolUnits \ {u} : tool_units'[x] = tool_units[x]

\* C24: a tool unit that has no step for an arriving wafer's current
\* sequence position adds one to the wafer's position, counts the wafer as
\* entered and as exited, forwards it at the same simulated time, and leaves
\* its resources, its round-robin index and the wafer's history as they were.
C24_SkipUnitFrame ==
    [][\A u \in ToolUnits : \A w \in WaferIds :
          (ArrivesAt(u, w) /\ CurrentStep(u, wafer_agents[w].current_seq_id) = {}) =>
              /\ wafer_agents'[w].current_seq_id = wafer_agents[w].current_seq_id + 1
              /\ tool_units'[u].agents_entered = tool_units[u].agents_entered + 1
              /\ tool_units'[u].agents_exited = tool_units[u].agents_exited + 1
              /\ now' = Head(queue).time
              /\ sent' = Append(sent, [a |-> w, port |-> output_port(u), t |-> now'])
              /\ queue' # <<>> /\ Head(queue') = [time |-> now', prio |-> URGENT,
                                                  ev |-> Ev("arrive", w, 0, output_port(u))]
              /\ users' = users
              /\ put_queue' = put_queue
              /\ request_log' = request_log
              /\ tool_units'[u].resource_index = tool_units[u].resource_index
              /\ HistoryOf(w)' = HistoryOf(w)
              /\ OthersUntouched(u, w)]_vars

\* a wafer has reached the Sink after a unit skipped it: its position has
\* moved further than its history has grown
C24_Witness ==
    /\ unit # ControllerUnit
    /\ \E i \in 1..Len(completed_agents) :
          LET w == completed_agents[i].a
          IN /\ wafer_agents[w].current_seq_id - 1 > Len(HistoryOf(w))
             /\ \E u \in ToolUnits : tool_units[u].agents_exited > 0
                                     /\ tool_units[u].resource_index = 0

\* the step of flow_sequence a record was made for
StepOfRecord(r) ==
    flow_sequence[CHOOSE i \in 1..Len(flow_sequence) : flow_sequence[i].seq_id = r.seq_id]

ZeroStepRecord(r) == StepOfRecord(r).duration_mean = 0

\* the request() calls made for wafer w at the step with this seq_id
RequestsFor(w, seq_id) ==
    {i \in 1..Len(request_log) :
        /\ request_log[i].id.w = w
        /\ flow_sequence[request_log[i].id.k].seq_id = seq_id}

\* the records of zero-duration steps: instantaneous, without a resource,
\* one per step, at the time the step before ended and the step after began
C25_ZeroRecords ==
    \A w \in WaferIds :
        LET h == HistoryOf(w)
        IN \A j \in 1..Len(h) :
              ZeroStepRecord(h[j]) =>
                  /\ h[j].start_time = h[j].end_time
                  /\ h[j].resource_id = NotApplicable
                  /\ \A i \in 1..Len(h) : i # j => h[i].seq_id # h[j].seq_id
                  /\ RequestsFor(w, h[j].seq_id) = {}
                  /\ j > 1 => h[j].start_time = h[j - 1].end_time
                  /\ j < Len(h) => h[j + 1].start_time = h[j].end_time

\* a wafer the FlowController has sent on has a record for every station step
C25_ControllerComplete ==
    unit = ControllerUnit =>
        \A i \in 1..Len(completed_agents) :
            LET h == HistoryOf(completed_agents[i].a)
                steps == StationSteps(flow_sequence)
            IN /\ Len(h) = Len(steps)
               /\ \A j \in 1..Len(h) : h[j].seq_id = steps[j].seq_id

\* a tool unit receiving a wafer at a zero-duration step appends the one
\* record and forwards the wafer in the same step, touching no resource
C25_UnitFrame ==
    \A u \in ToolUnits : \A w \in WaferIds :
        LET found == CurrentStep(u, wafer_agents[w].current_seq_id)
            step == flow_sequence[CHOOSE i \in found : TRUE]
        IN (ArrivesAt(u, w) /\ found # {} /\ step.duration_mean = 0) =>
              /\ now' = Head(queue).time
              /\ HistoryOf(w)' =
                    Append(HistoryOf(w),
                           [wafer_id |-> w, unit_id |-> u, seq_id |-> step.seq_id,
                            resource_id |-> NotApplicable,
                            start_time |-> now', end_time |-> now'])
              /\ sent' = Append(sent, [a |-> w, port |-> output_port(u), t |-> now'])
              /\ users' = users
              /\ put_queue' = put_queue
              /\ request_log' = request_log
              /\ tool_units'[u].resource_index = tool_units[u].resource_index
              /\ OthersUntouched(u, w)

\* C25: a step with duration_mean = 0 is handled without a resource by the
\* tool unit and by the FlowController: exactly one record with start_time =
\* end_time = the current time and resource id N/A, no request, no advance of
\* simulated time for the wafer, and the round-robin index as it was.
C25_ZeroDurationNoOp ==
    /\ [](C25_ZeroRecords /\ C25_ControllerComplete)
    /\ [][C25_UnitFrame]_vars

\* a wafer was processed on a resource, then went through a zero-duration
\* step at a unit of two instances, and reached the Sink at that same time
C25_Witness ==
    /\ unit # ControllerUnit
    /\ \E i \in 1..Len(completed_agents) :
          LET h == HistoryOf(completed_agents[i].a)
          IN /\ Len(h) = 2
             /\ h[1].resource_id # NotApplicable
             /\ ZeroStepRecord(h[2])
             /\ unit_capability[h[2].unit_id] = 2
             /\ h[2].start_time > 0
             /\ completed_agents[i].t = h[2].end_time

\* the request() calls made at tool unit u, in call order
RECURSIVE RequestsAt(_, _)
RequestsAt(u, log) ==
    IF log = <<>> THEN <<>>
    ELSE IF Head(log).id.p[1] = u
         THEN <<Head(log)>> \o RequestsAt(u, Tail(log))
         ELSE RequestsAt(u, Tail(log))

\* the records of the steps that have a duration
ResourceRecords(w) ==
    {j \in 1..Len(HistoryOf(w)) : ~ZeroStepRecord(HistoryOf(w)[j])}

EmptySteps == {i \in 1..Len(sorted_flow) : UnitToParts(sorted_flow[i].unit_id) = <<>>}

\* C27: a wafer that reaches a step whose station has zero physical
\* instances is dropped: it requests and acquires no resource for any later
\* step and appends no record of a later step.
C27_ZeroInstanceDrops ==
    \A w \in Wafers : \A i \in EmptySteps : \A j \in 1..Len(sorted_flow) :
        i < j =>
            /\ j \notin AdoptedSteps(w)
            /\ \A n \in 1..Len(request_log) :
                  ~(request_log[n].id.w = w /\ request_log[n].id.k = j)
            /\ \A n \in 1..Len(wafer_log) :
                  ~(wafer_log[n].WaferID = w
                      /\ wafer_log[n].SeqID = sorted_flow[j].seq_id)

(* ------------------- tool_simulator: reproducible runs ----------------- *)
\* the steps of NextTool the head event and the wafer's state allow
EnabledSteps ==
    {a \in {"LotStart", "WaferStart", "RequestProcessed", "TimeoutProcessed",
            "FirstStepTimeout", "FirstStepAcquired", "NextStepTimeout",
            "NextStepAcquired", "DelayDone", "ReleaseProcessed", "WaferEnded",
            "LotDone"} :
        CASE a = "LotStart" -> HeadIs("lotinit")
          [] a = "WaferStart" -> HeadIs("init")
          [] a = "RequestProcessed" -> HeadIs("req")
          [] a = "TimeoutProcessed" -> HeadIs("tmo")
          [] a = "FirstStepTimeout" ->
                 HeadIs("cond") /\ current[HeadEv.w] = NoReq
                     /\ TimeoutInResult(State, HeadEv.w, HeadEv.k)
          [] a = "FirstStepAcquired" ->
                 HeadIs("cond") /\ current[HeadEv.w] = NoReq
                     /\ ~TimeoutInResult(State, HeadEv.w, HeadEv.k)
          [] a = "NextStepTimeout" ->
                 HeadIs("cond") /\ current[HeadEv.w] # NoReq
                     /\ TimeoutInResult(State, HeadEv.w, HeadEv.k)
          [] a = "NextStepAcquired" ->
                 HeadIs("cond") /\ current[HeadEv.w] # NoReq
                     /\ ~TimeoutInResult(State, HeadEv.w, HeadEv.k)
          [] a = "DelayDone" -> HeadIs("delay")
          [] a = "ReleaseProcessed" -> HeadIs("rel")
          [] a = "WaferEnded" -> HeadIs("end")
          [] a = "LotDone" -> HeadIs("allof")}

\* two request() calls of different wafers for one part at one time
SameTimeRequests(i, j) ==
    /\ request_log[i].id.p = request_log[j].id.p
    /\ request_log[i].t = request_log[j].t
    /\ request_log[i].id.w < request_log[j].id.w

\* the earlier created wafer called request() first and, where both calls
\* were granted, was granted first
InCreationOrder(i, j) ==
    /\ i < j
    /\ (request_log[i].id \in triggered /\ request_log[j].id \in triggered)
          => GrantPos(request_log[i].id) < GrantPos(request_log[j].id)

C29_LogsHoldEveryVisit ==
    sim_pc = "collected" =>
        \A w \in WaferIds : \A j \in 1..Len(HistoryOf(w)) :
            /\ HistoryOf(w)[j].end_time <= duration
            /\ \E n \in 1..Len(wafer_logs) : wafer_logs[n] = HistoryOf(w)[j]

\* every record of every wafer, collected or not
AllRecords == UNION {SeqToSet(HistoryOf(w)) : w \in WaferIds}

\* the records that cover time t on resource r
Covering(r, t) ==
    {x \in AllRecords : x.resource_id = r /\ x.start_time <= t /\ t < x.end_time}

\* C30: the recorded intervals respect the capacity of the resources: for
\* every resource and every time t at most capacity-many records of that
\* resource have start_time <= t < end_time (it is enough to look at the
\* times at which a record starts).
C30_RecordsWithinCapacity ==
    \A x \in AllRecords :
        x.resource_id # NotApplicable =>
            Cardinality(Covering(x.resource_id, x.start_time)) <= Capacity(x.resource_id)

(* ------------------------------------------------------------------------ *)
\* agent b started service after having waited, while agent a, which had
\* arrived before that start, is still waiting for the resource
StartedBefore(b, a) ==
    /\ started[b] # NoTime /\ arrived[b] # NoTime /\ arrived[a] # NoTime
    /\ arrived[b] < started[b]
    /\ arrived[a] < started[b]
    /\ agent_pc[a] = "seize"

\* C31: in a Service constructed with priority_func, among the agents that
\* wait while every slot is busy, the one with the lowest priority value
\* starts service first, and equal values start in arrival order: no agent
\* starts while an agent with a lower value, or with the same value and an
\* earlier arrival, is still waiting.
C31_ServiceByPriority ==
    (unit = ServiceRes /\ priority_func) =>
        \A a, b \in Agents :
            StartedBefore(b, a) =>
                \/ attributes[b].priority < attributes[a].priority
                \/ attributes[b].priority = attributes[a].priority /\ b < a

(* ------------------------------------------------------------------------ *)
\* every wafer process of the lot has ended, normally or by an early return
AllWafersEnded == \A w \in Wafers : pc[w] = "done"

\* C32: in tool_environment the lot process terminates once every wafer
\* process of the lot has ended, also when a wafer ended early at a step
\* whose station has no available tools: the first test of the lot's loop
\* after the last wafer process has ended leaves the loop.
C32_LotEndsWithWafers ==
    [][(HeadIs("poll") /\ AllWafersEnded) => lot_pc' = "done"]_vars

(* ------------------------------------------------------------------------ *)
\* C33: in tool_environment.wafer_process the wafer holds exactly one
\* instance of the step's station while it processes a step, and once its
\* process has ended no resource lists a request of that wafer as holder or
\* as pending, whatever the number of instances and their availability.
C33_OneInstanceThenNone ==
    \A w \in Wafers :
        /\ pc[w] = "process" => Cardinality(HeldBy(w)) = 1
        /\ pc[w] = "done" => HeldBy(w) = {} /\ PendingOf(w) = {}

(* ------------------------------------------------------------------------ *)
\* the waiting agent that arrived last
LastWaiting == waiting_agents[Len(waiting_agents)]

\* C34: a Combine with timeout T > 0 forwards every agent it receives even
\* if the required count is never reached: while agents wait, the run has
\* not ended, a timeout process of the Combine is due no later than T time
\* units after the arrival of the last of them, and the clock has not passed
\* that time, so the waiting list is empty within T time units of the last
\* arrival.
C34_TimeoutFlushes ==
    (unit = CombineUnit /\ timeout > 0 /\ waiting_agents # <<>>) =>
        /\ queue # <<>>
        /\ now <= arrived[LastWaiting] + timeout
        /\ \E i \in 1..Len(queue) :
              /\ queue[i].ev.type \in {"batchinit", "batchtmo"}
              /\ queue[i].time <= arrived[LastWaiting] + timeout

(* ------------------------------------------------------------------------ *)
\* the wafer of record r adopted a grant of the part the record names at the
\* time the record starts
HeldFromStart(r) ==
    \E i \in 1..Len(adopted[r.WaferID]) :
        /\ adopted[r.WaferID][i].p = r.PartID
        /\ adopted[r.WaferID][i].t = r.Start

\* C35: every record written by wafer_process is consistent: its PartID is
\* an instance of the station in its UnitID, and the wafer held that
\* instance from Start to Finish, also after acquisition timeouts and after
\* steps skipped for missing instances.
C35_RecordsConsistent ==
    \A n \in 1..Len(wafer_log) :
        LET r == wafer_log[n]
        IN /\ r.PartID[1] = r.UnitID
           /\ r.PartID[2] \in 1..unit_capability[r.UnitID]
           /\ HeldFromStart(r)
           /\ r.Start <= r.Finish

(* ------------------------------------------------------------------------ *)
\* two records of different wafers on one part
SamePartRecords(n, m) ==
    /\ wafer_log[n].WaferID # wafer_log[m].WaferID
    /\ wafer_log[n].PartID = wafer_log[m].PartID

\* C36: for every physical part the records of different wafers do not
\* overlap: of two such records one starts no earlier than the other
\* finishes.
C36_NoOverlapOnPart ==
    \A n, m \in 1..Len(wafer_log) :
        SamePartRecords(n, m) =>
            \/ wafer_log[n].Finish <= wafer_log[m].Start
            \/ wafer_log[m].Finish <= wafer_log[n].Start

\* a part was used by one wafer and, after it, by another one for a time
C36_Witness ==
    \E n, m \in 1..Len(wafer_log) :
        /\ SamePartRecords(n, m)
        /\ wafer_log[n].Finish <= wafer_log[m].Start
        /\ wafer_log[m].Start < wafer_log[m].Finish

(* ------------------------------------------------------------------------ *)
\* following the output links from a port for at most fuel hand-offs: the
\* port at which the walk ends, or Cycle if it has not ended by then
Cycle == <<"cycle", 0>>
RECURSIVE EndOfLinks(_, _)
EndOfLinks(port, fuel) ==
    IF port \in {SinkUnit, NoPart} THEN port
    ELSE IF fuel = 0 THEN Cycle
    ELSE EndOfLinks(output_port(port[1]), fuel - 1)

\* the hand-offs of wafer w so far
HandOffs(w) == {i \in 1..Len(sent) : sent[i].a = w}

\* the horizon is long enough for every wafer of the run
SufficientHorizon == duration = 86400

\* C37: in SemiconductorToolSimulator, for every flow-step list, the links from the Source on
\* contain no cycle, every wafer is delivered to the Sink at most once after
\* at most one hand-off per unit and one by the Source, and with a
\* sufficient horizon every generated wafer has reached the Sink when the
\* run ends.
C37_EveryWaferReachesSink ==
    /\ EndOfLinks(SourcePort, Cardinality(ToolUnits)) # Cycle
    /\ \A w \in WaferIds :
          /\ Cardinality(Deliveries(w)) <= 1
          /\ Cardinality(HandOffs(w)) <= Cardinality(ToolUnits) + 1
    /\ (sim_pc = "collected" /\ SufficientHorizon) =>
          \A w \in WaferIds : Cardinality(Deliveries(w)) = 1

(* ------------------------------------------------------------------------ *)
\* the agents the Queue has received
ReceivedAgents == {a \in Agents : arrived[a] # NoTime}

\* C38: a Queue with an output and a capacity of at least 1 forwards every
\* agent at the simulated time it arrives and in arrival order, whatever the
\* downstream node does: between scheduler steps its buffer is empty, no
\* arrival has been rejected, and the hand-offs so far are the received
\* agents, once each, in arrival order, at their arrival times.
C38_QueuePassesThrough ==
    (unit = QueueUnit /\ connected /\ capacity >= 1) =>
        /\ buffer = <<>>
        /\ dropped = <<>>
        /\ Len(sent) = Cardinality(ReceivedAgents)
        /\ agents_exited = agents_entered
        /\ \A i \in 1..Len(sent) :
              /\ sent[i].a = i
              /\ sent[i].port = SinkUnit
              /\ sent[i].t = arrived[i]
              /\ exited[i] = arrived[i]

\* a Queue of capacity 1 has passed on three agents, two of them at the
\* same time and one later, while the Sink has not yet received the last
C38_Witness ==
    /\ unit = QueueUnit /\ connected /\ capacity = 1
    /\ Len(sent) = 3
    /\ arrived[1] = arrived[2]
    /\ arrived[2] < arrived[3]
    /\ Len(completed_agents) = 2

(* ------------------ observations of MetalToolSimulator ------------------ *)
\* fewer than all process chambers and fewer than all degas chambers are
\* occupied at initialisation (at least one loadport and one processing slot
\* exist in every simulator: simpy refuses a capacity of 0)
SomeChamberFree ==
    /\ occupied_process_chambers < unit_capability["chambers"]
    /\ occupied_degas_chambers < unit_capability["degas_chambers"]
    /\ unit_capability["loadports"] >= 1
    /\ unit_capability["processing_slots"] >= 1

\* lot l has finished all its wafers and holds or awaits neither a
\* processing slot nor a loadport
LotFinishedAll(l) ==
    /\ lot_proc[l] = "done"
    /\ \A i \in 1..WaferCount(l) : wafer_proc[l][i] = "done"
    /\ \A p \in {Loadports, ProcessingSlots} :
          ~InUsers(MetalReq(<<l, 0>>, p)) /\ ~InPutQueue(MetalReq(<<l, 0>>, p))

\* C39: if fewer than all process chambers and fewer than all degas chambers
\* are occupied at initialisation, every lot, WIP or new, eventually finishes
\* all its wafers and releases its processing slot and its loadport, and the
\* run never stops (empty event queue) with a lot unfinished
C39_EveryLotFinishes ==
    /\ [](SomeChamberFree /\ queue = <<>> => \A l \in Lots : LotFinishedAll(l))
    /\ (SomeChamberFree ~> \A l \in Lots : LotFinishedAll(l))

\* two lots shared the only loadport, a process chamber and a degas chamber
\* were occupied from the start, and both lots have finished
C39_Witness ==
    /\ SomeChamberFree
    /\ Len(metal_lots) = 2
    /\ unit_capability["loadports"] = 1
    /\ occupied_process_chambers = 1 /\ occupied_degas_chambers = 1
    /\ WaferCount(1) = 2 /\ WaferCount(2) = 2
    /\ now > 0
    /\ \A l \in Lots : LotFinishedAll(l)

====
